---- MODULE Spec2Model ----
(***************************************************************************)
(* Model of the staged report workflow of workflow.py: the text helpers    *)
(* (count_words, clean_response, remove_markdown), the progress callback   *)
(* with its cancellation gate, the retry harness of the roles, the six     *)
(* writing stages and the assembly of generate_single_report.              *)
(*                                                                         *)
(* A Python str is a sequence of characters.  ASCII characters are the     *)
(* one-character strings; the non-ASCII characters the patterns of the     *)
(* source distinguish are named: "zh_comma" (U+FF0C), "zh_stop" (U+3002),  *)
(* "zh_colon" (U+FF1A), and the Han characters "fen" "xi" (the keyword     *)
(* U+5206 U+6790), "xu" "yao" (U+9700 U+8981), "shou" "xian" (U+9996       *)
(* U+5148), "bu" "ke" (U+4E0D U+53EF), "hao" (U+597D); "han" is any other  *)
(* Han character that occurs in no pattern of the source.                  *)
(***************************************************************************)
EXTENDS Integers, Sequences, FiniteSets, TLC

\* ------------------------------------------------------------------------
\* Characters
\* ------------------------------------------------------------------------

LowerLatin ==
    {"a","b","c","d","e","f","g","h","i","j","k","l","m",
     "n","o","p","q","r","s","t","u","v","w","x","y","z"}

FoldMap ==
    [A |-> "a", B |-> "b", C |-> "c", D |-> "d", E |-> "e", F |-> "f",
     G |-> "g", H |-> "h", I |-> "i", J |-> "j", K |-> "k", L |-> "l",
     M |-> "m", N |-> "n", O |-> "o", P |-> "p", Q |-> "q", R |-> "r",
     S |-> "s", T |-> "t", U |-> "u", V |-> "v", W |-> "w", X |-> "x",
     Y |-> "y", Z |-> "z"]

UpperLatin == DOMAIN FoldMap

\* re.IGNORECASE: characters are compared after case folding
Fold(c) == IF c \in UpperLatin THEN FoldMap[c] ELSE c

Latin == LowerLatin \cup UpperLatin

Digit == {"0","1","2","3","4","5","6","7","8","9"}

\* [一-鿿]
Han == {"han","fen","xi","xu","yao","shou","xian","bu","ke","hao"}

\* \s
Ws == {" ", "\n"}

\* \w of a Python 3 str pattern: letters of any script, digits, underscore
WordChar == Latin \cup Digit \cup Han \cup {"_"}

\* ------------------------------------------------------------------------
\* str helpers
\* ------------------------------------------------------------------------

MinOf(S) == CHOOSE x \in S : \A y \in S : x <= y

MaxOf(S) == CHOOSE x \in S : \A y \in S : x >= y

\* the least element of S, d when S is empty
MinOr(S, d) == IF S = {} THEN d ELSE MinOf(S)

\* the greatest element of S, d when S is empty
MaxOr(S, d) == IF S = {} THEN d ELSE MaxOf(S)

\* the part of t from the first to the last index in keep
Span(t, keep) == IF keep = {} THEN <<>> ELSE SubSeq(t, MinOf(keep), MaxOf(keep))

\* first index >= i whose character is not in set cs (Len(t)+1 when none)
SkipWhile(t, i, cs) == MinOr({j \in i..Len(t) : t[j] \notin cs}, Len(t) + 1)

\* first index >= i whose character is in set cs (Len(t)+1 when none)
FindFirst(t, i, cs) == MinOr({j \in i..Len(t) : t[j] \in cs}, Len(t) + 1)

\* an optional character of cs at index i: the index after it
SkipOne(t, i, cs) == IF i <= Len(t) /\ t[i] \in cs THEN i + 1 ELSE i

\* str.strip()
Strip(t) == Span(t, {j \in 1..Len(t) : t[j] \notin Ws})

\* str.split('\n')
RECURSIVE SplitLines(_)
SplitAt(t, n) ==
    IF n > Len(t) THEN <<t>>
    ELSE <<SubSeq(t, 1, n - 1)>> \o SplitLines(SubSeq(t, n + 1, Len(t)))

SplitLines(t) == SplitAt(t, FindFirst(t, 1, {"\n"}))

\* sep.join(parts)
RECURSIVE Join(_, _)
Join(parts, sep) ==
    IF parts = <<>> THEN <<>>
    ELSE IF Len(parts) = 1 THEN parts[1]
    ELSE parts[1] \o sep \o Join(Tail(parts), sep)

\* ^ under re.MULTILINE
AtLineStart(t, i) == i = 1 \/ t[i - 1] = "\n"

\* the literal w matches at index i of t (case-insensitively)
MatchAt(t, i, w) ==
    /\ i + Len(w) - 1 <= Len(t)
    /\ \A k \in 1..Len(w) : Fold(t[i + k - 1]) = Fold(w[k])

\* the length of the first of the alternatives whose indices are in hit
FirstLen(alts, hit) == IF hit = {} THEN 0 ELSE Len(alts[MinOf(hit)])

\* (?:w1|w2|...) at index i: length of the first alternative that matches, 0 if none
AltLenAt(t, i, alts) == FirstLen(alts, {a \in 1..Len(alts) : MatchAt(t, i, alts[a])})

\* index i moved by k characters when k > 0, else 0
Advance(i, k) == IF k > 0 THEN i + k ELSE 0

\* (?:w1|w2|...) at index i: the index after the match, 0 when there is none
MatchEnd(t, i, alts) == Advance(i, AltLenAt(t, i, alts))

\* re.search of an alternation of literals
SearchAlt(t, alts) == \E i \in 1..Len(t) : AltLenAt(t, i, alts) > 0

\* re.sub(r'\s+', ' ', t), from index i on
RECURSIVE CollapseWs(_, _)
CollapseWsAt(t, i, m) ==
    IF m > Len(t) THEN SubSeq(t, i, Len(t))
    ELSE SubSeq(t, i, m - 1) \o <<" ">> \o CollapseWs(t, SkipWhile(t, m, Ws))

CollapseWs(t, i) == CollapseWsAt(t, i, FindFirst(t, i, Ws))

\* ------------------------------------------------------------------------
\* count_words
\* ------------------------------------------------------------------------

\* the index after the '>' at index j that closes the tag opened at index i
TagClose(t, i, j) == IF j <= Len(t) /\ j > i + 1 THEN j + 1 ELSE 0

\* <[^>]+> at index i: the index after the match, 0 when there is none
TagEnd(t, i) == IF t[i] = "<" THEN TagClose(t, i, FindFirst(t, i + 1, {">"})) ELSE 0

\* re.sub(r'<[^>]+>', ' ', t): m is the start of the first match from i on
RECURSIVE SubTagBySpace(_, _)
SubTagBySpaceAt(t, i, m) ==
    IF m = 0 THEN SubSeq(t, i, Len(t))
    ELSE SubSeq(t, i, m - 1) \o <<" ">> \o SubTagBySpace(t, TagEnd(t, m))

SubTagBySpace(t, i) ==
    SubTagBySpaceAt(t, i, MinOr({j \in i..Len(t) : TagEnd(t, j) > 0}, 0))

\* \b before index i / after index e
BoundaryBefore(t, i) == i = 1 \/ t[i - 1] \notin WordChar

BoundaryAfter(t, e) == e = Len(t) \/ t[e + 1] \notin WordChar

\* len(re.findall(r'[一-鿿]', t))
CountHan(t) == Cardinality({i \in 1..Len(t) : t[i] \in Han})

\* len(re.findall(r'\b[a-zA-Z]+\b', t))
CountLatinWords(t) ==
    Cardinality({i \in 1..Len(t) :
        /\ t[i] \in Latin
        /\ BoundaryBefore(t, i)
        /\ BoundaryAfter(t, SkipWhile(t, i, Latin) - 1)})

\* \d+(?:\.\d+)?\b whose first run of digits ends at index e
NumberEndFrom(t, e) ==
    IF /\ e + 2 <= Len(t) /\ t[e + 1] = "." /\ t[e + 2] \in Digit
       /\ BoundaryAfter(t, SkipWhile(t, e + 2, Digit) - 1)
    THEN SkipWhile(t, e + 2, Digit)
    ELSE IF BoundaryAfter(t, e) THEN e + 1
    ELSE 0

\* \b\d+(?:\.\d+)?\b at index i: the index after the match, 0 when there is none
NumberEnd(t, i) ==
    IF t[i] \in Digit /\ BoundaryBefore(t, i)
    THEN NumberEndFrom(t, SkipWhile(t, i, Digit) - 1)
    ELSE 0

\* len(re.findall(r'\b\d+(?:\.\d+)?\b', t)), from index i on
RECURSIVE CountNumbers(_, _)
CountNumbersAt(t, m) == IF m = 0 THEN 0 ELSE 1 + CountNumbers(t, NumberEnd(t, m))

CountNumbers(t, i) ==
    CountNumbersAt(t, MinOr({j \in i..Len(t) : NumberEnd(t, j) > 0}, 0))

\* chinese_chars + english_words + numbers
CountTokens(t) == CountHan(t) + CountLatinWords(t) + CountNumbers(t, 1)

count_words(text) ==
    IF text = <<>> THEN 0
    ELSE CountTokens(SubTagBySpace(CollapseWs(Strip(text), 1), 1))

\* ------------------------------------------------------------------------
\* remove_markdown
\* Characters of the patterns for code fences, inline code, emphasis,
\* strike-through, links and images (` * _ ~ [ ] ( ) ! /) are not in the
\* alphabet of the texts modelled here, so those substitutions find nothing.
\* ------------------------------------------------------------------------

\* ^#{1,6}\s*(.*)$ at index i: the start of group 1
HeadingStart(t, i) == SkipWhile(t, MinOf({SkipWhile(t, i, {"#"}), i + 6}), Ws)

\* re.sub(r'^#{1,6}\s*(.*)$', r'\1', t, flags=re.MULTILINE)
RECURSIVE SubHeading(_, _)
\* group 1 starts at index q and runs to the end of the line
SubHeadingLine(t, q) ==
    SubSeq(t, q, FindFirst(t, q, {"\n"}) - 1) \o SubHeading(t, FindFirst(t, q, {"\n"}))

SubHeadingAt(t, i, m) ==
    IF m = 0 THEN SubSeq(t, i, Len(t))
    ELSE SubSeq(t, i, m - 1) \o SubHeadingLine(t, HeadingStart(t, m))

SubHeading(t, i) ==
    SubHeadingAt(t, i, MinOr({j \in i..Len(t) : t[j] = "#" /\ AtLineStart(t, j)}, 0))

ListMarker == {"-", "*", "+"}

\* [-*+]\s+ at index q: the index after the match, 0 when there is none
BulletAt(t, q) ==
    IF q <= Len(t) /\ t[q] \in ListMarker /\ SkipWhile(t, q + 1, Ws) > q + 1
    THEN SkipWhile(t, q + 1, Ws) ELSE 0

\* ^[\s]*[-*+]\s+ at index i: the index after the match, 0 when there is none
BulletEnd(t, i) == IF AtLineStart(t, i) THEN BulletAt(t, SkipWhile(t, i, Ws)) ELSE 0

\* re.sub(r'^[\s]*[-*+]\s+', '', t, flags=re.MULTILINE)
RECURSIVE SubBullet(_, _)
SubBulletAt(t, i, m) ==
    IF m = 0 THEN SubSeq(t, i, Len(t))
    ELSE SubSeq(t, i, m - 1) \o SubBullet(t, BulletEnd(t, m))

SubBullet(t, i) == SubBulletAt(t, i, MinOr({j \in i..Len(t) : BulletEnd(t, j) > 0}, 0))

\* \.\s+ at index d, after the digits that start at index q
NumberedDot(t, q, d) ==
    IF d > q /\ d <= Len(t) /\ t[d] = "." /\ SkipWhile(t, d + 1, Ws) > d + 1
    THEN SkipWhile(t, d + 1, Ws) ELSE 0

\* ^[\s]*\d+\.\s+ at index i: the index after the match, 0 when there is none
NumberedEnd(t, i) ==
    IF AtLineStart(t, i)
    THEN NumberedDot(t, SkipWhile(t, i, Ws), SkipWhile(t, SkipWhile(t, i, Ws), Digit))
    ELSE 0

\* re.sub(r'^[\s]*\d+\.\s+', '', t, flags=re.MULTILINE)
RECURSIVE SubNumbered(_, _)
SubNumberedAt(t, i, m) ==
    IF m = 0 THEN SubSeq(t, i, Len(t))
    ELSE SubSeq(t, i, m - 1) \o SubNumbered(t, NumberedEnd(t, m))

SubNumbered(t, i) ==
    SubNumberedAt(t, i, MinOr({j \in i..Len(t) : NumberedEnd(t, j) > 0}, 0))

\* re.sub(r'^>\s*', '', t, flags=re.MULTILINE)
RECURSIVE SubQuote(_, _)
SubQuoteAt(t, i, m) ==
    IF m = 0 THEN SubSeq(t, i, Len(t))
    ELSE SubSeq(t, i, m - 1) \o SubQuote(t, SkipWhile(t, m + 1, Ws))

SubQuote(t, i) ==
    SubQuoteAt(t, i, MinOr({j \in i..Len(t) : t[j] = ">" /\ AtLineStart(t, j)}, 0))

RuleChar == {"-", "*", "_"}

\* \s*$ from index r, the whitespace running up to index s: the trailing \s*
\* backtracks to the last position that is the end of the text or stands
\* before a newline; 0 when there is none
RuleClose(t, r, s) ==
    MaxOr({e \in r..s : e = Len(t) + 1 \/ (e < s /\ t[e] = "\n")}, 0)

\* [-*_]{3,}\s*$ from index q, the run of rule characters ending before index r
RuleRun(t, q, r) == IF r >= q + 3 THEN RuleClose(t, r, SkipWhile(t, r, Ws)) ELSE 0

\* [-*_]{3,}\s*$ at index q
RuleAt(t, q) == RuleRun(t, q, SkipWhile(t, q, RuleChar))

\* ^\s*[-*_]{3,}\s*$ at index i: the index after the match, 0 when there is none
RuleEnd(t, i) == IF AtLineStart(t, i) THEN RuleAt(t, SkipWhile(t, i, Ws)) ELSE 0

\* re.sub(r'^\s*[-*_]{3,}\s*$', '', t, flags=re.MULTILINE)
RECURSIVE SubRule(_, _)
SubRuleAt(t, i, m) ==
    IF m = 0 THEN SubSeq(t, i, Len(t))
    ELSE SubSeq(t, i, m - 1) \o SubRule(t, RuleEnd(t, m))

SubRule(t, i) == SubRuleAt(t, i, MinOr({j \in i..Len(t) : RuleEnd(t, j) > 0}, 0))

remove_markdown(text) ==
    IF text = <<>> THEN <<>>
    ELSE Strip(CollapseWs(SubRule(SubQuote(SubNumbered(SubBullet(
             SubHeading(text, 1), 1), 1), 1), 1), 1))

\* ------------------------------------------------------------------------
\* clean_response
\* The alternations of the source are long lists of literal keywords; the
\* lists below hold, in source order, the alternatives that can be written
\* with the characters of the alphabet.  The substitution of workflow.py:96
\* needs a '<' that is followed by a '>', and the one of workflow.py:103 a
\* keyword of workflow.py:100; neither is left after those two substitutions,
\* so both find nothing.  There is no '\r' in the alphabet (workflow.py:151).
\* ------------------------------------------------------------------------

\* workflow.py:100  (?:...|分析|...|Thought|Reasoning|Analysis)
ParagraphKeywords ==
    << <<"fen","xi">>,
       <<"t","h","o","u","g","h","t">>,
       <<"r","e","a","s","o","n","i","n","g">>,
       <<"a","n","a","l","y","s","i","s">> >>

\* workflow.py:106  (?:...|首先|...)
LeadingPhrases == << <<"shou","xian">> >>

\* workflow.py:113 and :125  thinking_keywords
ThinkingKeywords ==
    << <<"fen","xi">>,
       <<"t","h","o","u","g","h","t">>,
       <<"r","e","a","s","o","n","i","n","g">>,
       <<"a","n","a","l","y","s","i","s">>,
       <<"xu","yao">>,
       <<"shou","xian">> >>

\* workflow.py:144  thinking_phrases
ThinkingPhrases == << <<"shou","xian">>, <<"bu","ke">> >>

\* [嗯啊呃哦嘿好]
Particle == {"hao"}

\* [，,]
Comma == {"zh_comma", ","}

\* [:：]
Colon == {":", "zh_colon"}

\* [。！？.!?]
SentenceEnd == {"zh_stop", ".", "!", "?"}

\* [，,。！!？?]
ClausePunct == {"zh_comma", ",", "zh_stop", "!", "?"}

\* re.sub(r'<.*?>', '', t, flags=re.DOTALL)
RECURSIVE SubTags(_, _)
SubTagsAt(t, i, m) ==
    IF m = 0 THEN SubSeq(t, i, Len(t))
    ELSE SubSeq(t, i, m - 1) \o SubTags(t, FindFirst(t, m + 1, {">"}) + 1)

SubTags(t, i) ==
    SubTagsAt(t, i, MinOr({j \in i..Len(t) :
        t[j] = "<" /\ FindFirst(t, j + 1, {">"}) <= Len(t)}, 0))

\* (?=\n\s*\n|\Z) at index q
ParagraphEndAt(t, q) ==
    \/ q = Len(t) + 1
    \/ /\ q <= Len(t) /\ t[q] = "\n"
       /\ \E r \in (q + 1)..Len(t) :
            t[r] = "\n" /\ \A m \in (q + 1)..(r - 1) : t[m] \in Ws

\* [:：]?\s*.*?(?=\n\s*\n|\Z) from index p0: the index after the match
ParagraphEndFrom(t, p0) ==
    MinOf({e \in SkipWhile(t, SkipOne(t, p0, Colon), Ws)..(Len(t) + 1) :
            ParagraphEndAt(t, e)})

\* re.sub(r'(?:keywords)[:：]?\s*.*?(?=\n\s*\n|\Z)', '', t, IGNORECASE | DOTALL)
\* the index after the match that starts with a keyword at index i
ParagraphEnd(t, i) == ParagraphEndFrom(t, MatchEnd(t, i, ParagraphKeywords))

RECURSIVE SubParagraph(_, _)
SubParagraphAt(t, i, m) ==
    IF m = 0 THEN SubSeq(t, i, Len(t))
    ELSE SubSeq(t, i, m - 1) \o SubParagraph(t, ParagraphEnd(t, m))

SubParagraph(t, i) ==
    SubParagraphAt(t, i, MinOr({j \in i..Len(t) :
        MatchEnd(t, j, ParagraphKeywords) > 0}, 0))

\* re.sub(r'^(?:particle)?[，,]?\s*(?:phrases)', '', t, flags=re.MULTILINE)
\* the index after the match at index i, 0 when there is none
LeadingEnd(t, i) ==
    IF AtLineStart(t, i)
    THEN MatchEnd(t, SkipWhile(t, SkipOne(t, SkipOne(t, i, Particle), Comma), Ws),
                  LeadingPhrases)
    ELSE 0

RECURSIVE SubLeading(_, _)
SubLeadingAt(t, i, m) ==
    IF m = 0 THEN SubSeq(t, i, Len(t))
    ELSE SubSeq(t, i, m - 1) \o SubLeading(t, LeadingEnd(t, m))

SubLeading(t, i) == SubLeadingAt(t, i, MinOr({j \in i..Len(t) : LeadingEnd(t, j) > 0}, 0))

\* the index after the character at index j, 0 when j is past the end
AfterIndex(line, j) == IF j <= Len(line) THEN j + 1 ELSE 0

\* .*?[，,。！!？?] from index p on, 0 when p is 0
ClauseEndFrom(line, p) ==
    IF p = 0 THEN 0 ELSE AfterIndex(line, FindFirst(line, p, ClausePunct))

\* re.sub(r'(?:thinking_keywords).*?[，,。！!？?]', '', line, flags=re.IGNORECASE)
\* the index after the match at index i, 0 when there is none
ThinkingClauseEnd(line, i) == ClauseEndFrom(line, MatchEnd(line, i, ThinkingKeywords))

RECURSIVE SubThinkingClause(_, _)
SubThinkingClauseAt(line, i, m) ==
    IF m = 0 THEN SubSeq(line, i, Len(line))
    ELSE SubSeq(line, i, m - 1) \o SubThinkingClause(line, ThinkingClauseEnd(line, m))

SubThinkingClause(line, i) ==
    SubThinkingClauseAt(line, i, MinOr({j \in i..Len(line) :
        ThinkingClauseEnd(line, j) > 0}, 0))

\* workflow.py:112-136 for one line: what it adds to filtered_lines
KeepLine(line, cleaned_line) ==
    IF ~SearchAlt(line, ThinkingKeywords) THEN <<line>>
    ELSE IF ~\E i \in 1..Len(line) : line[i] \in SentenceEnd THEN <<>>
    ELSE IF Len(Strip(cleaned_line)) < 15 THEN <<>>
    ELSE IF line # cleaned_line THEN <<Strip(cleaned_line)>>
    ELSE <<line>>

\* the loop of workflow.py:111-136 over the lines
RECURSIVE FilterThinkingLines(_)
FilterThinkingLines(lines) ==
    IF lines = <<>> THEN <<>>
    ELSE KeepLine(Head(lines), SubThinkingClause(Head(lines), 1))
             \o FilterThinkingLines(Tail(lines))

\* [嗯啊呃哦嘿好]\s* at index q: the index after the match, 0 when there is none
ParticleAt(t, q) ==
    IF q <= Len(t) /\ t[q] \in Particle THEN SkipWhile(t, q + 1, Ws) ELSE 0

\* re.sub(r'^\s*[嗯啊呃哦嘿好]\s*', '', t, flags=re.MULTILINE)
\* the index after the match at index i, 0 when there is none
ParticleEnd(t, i) == IF AtLineStart(t, i) THEN ParticleAt(t, SkipWhile(t, i, Ws)) ELSE 0

RECURSIVE SubParticle(_, _)
SubParticleAt(t, i, m) ==
    IF m = 0 THEN SubSeq(t, i, Len(t))
    ELSE SubSeq(t, i, m - 1) \o SubParticle(t, ParticleEnd(t, m))

SubParticle(t, i) ==
    SubParticleAt(t, i, MinOr({j \in i..Len(t) : ParticleEnd(t, j) > 0}, 0))

\* re.sub(thinking_phrases, '', t, flags=re.IGNORECASE)
RECURSIVE SubPhrases(_, _)
SubPhrasesAt(t, i, m) ==
    IF m = 0 THEN SubSeq(t, i, Len(t))
    ELSE SubSeq(t, i, m - 1) \o SubPhrases(t, MatchEnd(t, m, ThinkingPhrases))

SubPhrases(t, i) ==
    SubPhrasesAt(t, i, MinOr({j \in i..Len(t) : MatchEnd(t, j, ThinkingPhrases) > 0}, 0))

\* the index after the last of the newlines at the indices nl when there
\* are three or more of them, else 0
LastOfThree(nl) == IF Cardinality(nl) >= 3 THEN MaxOf(nl) + 1 ELSE 0

\* re.sub(r'\n\s*\n\s*\n', '\n\n', t)
\* \n\s*\n\s*\n at index i: the index after the match, 0 when there is none
BlankLinesEnd(t, i) ==
    IF t[i] = "\n"
    THEN LastOfThree({j \in i..(SkipWhile(t, i, Ws) - 1) : t[j] = "\n"})
    ELSE 0

RECURSIVE SubBlankLines(_, _)
SubBlankLinesAt(t, i, m) ==
    IF m = 0 THEN SubSeq(t, i, Len(t))
    ELSE SubSeq(t, i, m - 1) \o <<"\n", "\n">> \o SubBlankLines(t, BlankLinesEnd(t, m))

SubBlankLines(t, i) ==
    SubBlankLinesAt(t, i, MinOr({j \in i..Len(t) : BlankLinesEnd(t, j) > 0}, 0))

\* [line.strip() for line in lines]
StripEach(lines) == [n \in 1..Len(lines) |-> Strip(lines[n])]

\* workflow.py:157-166: runs of empty lines become one empty line
RECURSIVE MergeEmpty(_, _)
MergeEmpty(lines, prev_empty) ==
    IF lines = <<>> THEN <<>>
    ELSE IF Head(lines) = <<>>
    THEN (IF prev_empty THEN <<>> ELSE << <<>> >>) \o MergeEmpty(Tail(lines), TRUE)
    ELSE <<Head(lines)>> \o MergeEmpty(Tail(lines), FALSE)

\* workflow.py:169-172: drop the empty lines at both ends
TrimEmpty(lines) == Span(lines, {n \in 1..Len(lines) : lines[n] # <<>>})

\* re.sub(r'^[，,。！!？?]+', '', re.sub(r'[，,。！!？?]+$', '', line))
TrimPunct(line) == Span(line, {n \in 1..Len(line) : line[n] \notin ClausePunct})

\* workflow.py:175-176 over the lines
TrimPunctEach(lines) == [n \in 1..Len(lines) |-> TrimPunct(lines[n])]

\* [line for line in lines if len(line) > 5 or re.search(r'[。！？.!?]', line)]
RECURSIVE DropShortLines(_)
DropShortLines(lines) ==
    IF lines = <<>> THEN <<>>
    ELSE IF Len(Head(lines)) > 5
            \/ \E i \in 1..Len(Head(lines)) : Head(lines)[i] \in SentenceEnd
    THEN <<Head(lines)>> \o DropShortLines(Tail(lines))
    ELSE DropShortLines(Tail(lines))

\* workflow.py:96-148: the substitutions on the whole text
CleanedText(response) ==
    SubBlankLines(SubPhrases(SubParticle(
        Join(FilterThinkingLines(SplitLines(
            SubLeading(SubParagraph(SubTags(response, 1), 1), 1))), <<"\n">>),
        1), 1), 1)

\* workflow.py:151-179: the clean-up of the lines
CleanedLines(text) ==
    DropShortLines(TrimPunctEach(TrimEmpty(MergeEmpty(StripEach(SplitLines(text)), FALSE))))

\* the text before the length safeguard of workflow.py:183
CleanedResult(response) == Join(CleanedLines(CleanedText(response)), <<"\n">>)

\* a clean_response that returns the cleaned text whatever its length
LengthSafeguardOff(response, cleaned_result) == cleaned_result

\* workflow.py:183-188
LengthSafeguard(response, cleaned_result) ==
    IF 4 * Len(cleaned_result) < Len(response)
    THEN Strip(response)
    ELSE cleaned_result

clean_response(response) ==
    IF response = <<>> THEN <<>>
    ELSE LengthSafeguard(response, CleanedResult(response))

\* ------------------------------------------------------------------------
\* The workflow: constants of the source
\* ------------------------------------------------------------------------

\* task_data["question"], which every role keeps as self.question
question == "task_question"

\* the "question" entry of the template data a role hands to
\* agent.update_template_data before its chat
RoleTemplateData == [question |-> question]

\* the message each caller passes to agent.chat: the retry harness, the
\* evaluator (stage 7) and the improver (stage 8)
ChatMessage(s) ==
    IF s = 7 THEN "evaluate_message"
    ELSE IF s = 8 THEN "improve_message"
    ELSE "generate_message"

\* BaseAgent.chat: the copy of the agent's template data, with the entries
\* "message" and "question" set to the message
ChatTemplateData(template_data, message) ==
    [k \in DOMAIN template_data \cup {"message", "question"} |->
        IF k \in {"message", "question"} THEN message ELSE template_data[k]]

\* what prompt_template.format(**template_data) puts in place of {question}
FormatQuestion(template_data, message) ==
    ChatTemplateData(template_data, message)["question"]

\* max_retries of AgentRole._call_agent_with_retry
max_retries == 3

\* max_attempts of ReportImprover.improve_report
max_attempts == 3

\* the stages of generate_single_report, in the order of its steps 1-6
\* (1 conclusion, 2 policy, 3 market, 4 case, 5 technical, 6 societal);
\* 7 and 8 stand for the evaluation and the improvement
NumStages == 6

EvalStage == 7

ImproveStage == 8

\* the default conclusion of ConclusionGenerator.write
default_conclusion ==
    <<"han","han","han","han","han","han","han","han","han","han","han",
      "han","zh_comma","han","han","han","han","han","han","han","han",
      "han","han","han","han","han","han","zh_comma","han","han","han",
      "han","han","han","han","han","han","han","han","han","han","han",
      "han","han","han","han","han","zh_comma","xu","yao","han","han","han",
      "han","han","han","han","han","han","han","han","zh_stop">>

PolicyPlaceholder ==
    <<"han","han","han","han","fen","xi","han","han","han","han","han",
      "han","han","bu","ke","han","zh_stop">>

MarketPlaceholder ==
    <<"han","han","fen","xi","han","han","han","han","han","han","han","bu",
      "ke","han","zh_stop">>

CasePlaceholder ==
    <<"C","a","s","e"," ","s","t","u","d","i","e","s"," ","a","n","a","l",
      "y","s","i","s"," ","i","s"," ","c","u","r","r","e","n","t","l","y",
      " ","u","n","a","v","a","i","l","a","b","l","e"," ","d","u","e"," ",
      "t","o"," ","t","e","c","h","n","i","c","a","l"," ","i","s","s","u",
      "e","s",".">>

TechnicalPlaceholder ==
    <<"T","e","c","h","n","i","c","a","l"," ","e","x","p","l","a","n","a",
      "t","i","o","n"," ","i","s"," ","c","u","r","r","e","n","t","l","y",
      " ","u","n","a","v","a","i","l","a","b","l","e"," ","d","u","e"," ",
      "t","o"," ","t","e","c","h","n","i","c","a","l"," ","i","s","s","u",
      "e","s",".">>

SocietalPlaceholder ==
    <<"S","o","c","i","a","l"," ","a","n","a","l","y","s","i","s"," ","i",
      "s"," ","c","u","r","r","e","n","t","l","y"," ","u","n","a","v","a",
      "i","l","a","b","l","e"," ","d","u","e"," ","t","o"," ","t","e","c",
      "h","n","i","c","a","l"," ","i","s","s","u","e","s",".">>

\* what write() of the role of stage s returns from its except clause
Fallback(s) ==
    CASE s = 1 -> default_conclusion
      [] s = 2 -> PolicyPlaceholder
      [] s = 3 -> MarketPlaceholder
      [] s = 4 -> CasePlaceholder
      [] s = 5 -> TechnicalPlaceholder
      [] s = 6 -> SocietalPlaceholder

\* ------------------------------------------------------------------------
\* Inputs: what the model behind agent.chat may answer
\* ------------------------------------------------------------------------

\* n Han characters
Hans(n) == [k \in 1..n |-> "han"]

\* a usable answer for stage s: a line of meta-commentary, then a heading
\* marker and a sentence whose length tells the stages apart
GoodContent(s) ==
    <<"xu", "yao", "han", "\n", "#", " ">> \o Hans(8 + s) \o <<"zh_stop">>

\* an answer the harness accepts (5 characters or more after cleaning) that
\* is shorter than the 10 characters ConclusionGenerator.write asks for
BriefContent == <<"#", " ">> \o Hans(5) \o <<"zh_stop">>

\* AgentResponse(content, success)
AgentResponse(c, ok) == [content |-> c, success |-> ok]

NoResponse == AgentResponse(<<>>, FALSE)

\* the failed attempts the model and the templates may cause in one job
MaxFaults == 3

\* task_data["word_limit"]
word_limit == 12

\* plain content of exactly word_limit words
ExactContent == Hans(word_limit) \o <<"zh_stop">>

\* terse content: a conclusion of word_limit - 5 words and sections of one
\* word, which make a report of exactly word_limit words
TerseContent(s) ==
    IF s = 1 THEN Hans(word_limit - 6) \o <<" ", "a", "b", "c">>
    ELSE <<"a", "b", "c", "d", "e">>

\* the answers of a writing stage: provider error, empty content, blank
\* content, content too short, usable content
ModelResponses(s) ==
    {AgentResponse(<<>>, FALSE),
     AgentResponse(<<>>, TRUE),
     AgentResponse(<<" ", "\n">>, TRUE),
     AgentResponse(<<"a", "b", "c", "d">>, TRUE),
     AgentResponse(GoodContent(s), TRUE)}
    \cup (IF s = 1 THEN {AgentResponse(BriefContent, TRUE)} ELSE {})

\* the answers of the evaluator
EvaluatorResponses ==
    {AgentResponse(<<>>, FALSE),
     AgentResponse(<<"a", "b", "c", "d", "e", "f", ".">>, TRUE)}

\* the answers of the improver: provider error, a text of exactly
\* word_limit words, one word more, and a much longer one
ImproverResponses ==
    {AgentResponse(<<>>, FALSE),
     AgentResponse(Hans(word_limit) \o <<"zh_stop">>, TRUE),
     AgentResponse(<<"#", " ">> \o Hans(word_limit + 1) \o <<"zh_stop">>, TRUE),
     AgentResponse(Hans(word_limit - 1) \o <<"zh_stop">>, TRUE),
     AgentResponse(Hans(word_limit) \o <<"zh_comma">> \o default_conclusion, TRUE)}

\* ------------------------------------------------------------------------
\* State
\* ------------------------------------------------------------------------

VARIABLES
    pc,                 \* where the job's coroutine stands
    stage,              \* the step of the workflow the job is in (1..8)
    attempt,            \* loop variable of the retry harness / of the improver
    driver,             \* "workflow" or "main": the generate_report_with_progress that runs the job
    cancelled,          \* what the job's cancel checker returns
    cancel_stage,       \* the stage the job was in when the checker turned true,
                        \* past the last stage when the workflow had ended
    connected,          \* the job's client is among the manager's connections (as it is for the whole job)
    faults,             \* failed attempts the job's model and templates have caused so far
    template_ok,        \* the agent's prompt template renders with the role's template data
    prompt_question,    \* what the last rendered prompt shows for {question}, "none" before any
    response,           \* the AgentResponse of the last agent.chat
    content,            \* the cleaned content the harness returns
    context,            \* the context argument of the running write()
    conclusion,         \* self.conclusion of the running role
    section,            \* what each stage's write() returned
    events,             \* the progress messages of the current stage, in order
    event_stage,        \* the latest stage that sent a progress message
    calls,              \* model invocations of the current stage
    call_stage,         \* the latest stage that invoked the model
    backoff,            \* the time.sleep delays of the current stage, in order
    report,             \* what generate_single_report returned
    evaluation_result,  \* what evaluate_report returned
    best_result,        \* improve_report's best_result
    best_word_diff,     \* improve_report's best_word_diff
    improved_report,    \* what improve_report returned
    candidates,         \* the improved_answer of each attempt of improve_report, in order
    improve_prompts,    \* the template data of each attempt of improve_report, in order
    final_report,       \* what evaluate_and_improve_report returned
    gsr_result,         \* how generate_single_report ended
    eai_result,         \* how evaluate_and_improve_report ended
    job_result          \* how generate_report_with_progress ended

\* two jobs started by create_report_task, run as tasks of one event loop
VARIABLES
    tasks,              \* each background task: where its coroutine stands, and its attempt
    cancel_tokens,      \* main.py's cancel_tokens: task id -> bool
    running_task,       \* the task whose code the event loop's thread is running, or "idle"
    outbox              \* the messages the connection manager has sent

loopVars == <<tasks, cancel_tokens, running_task, outbox>>

\* one call of a text helper or of the evaluator's arithmetic
VARIABLES
    text,               \* a text
    target,             \* the word_limit of the report whose answer the text is
    callee,             \* the function the text is for, "none" in a job
    argument,           \* the str the function was called with
    returned,           \* the call has returned
    output              \* what the call returned

textVars == <<text, target, callee, argument, returned, output>>

\* generate_report_background of main.py around the job of the driver "main"
VARIABLES
    bg_pc,              \* where generate_report_background stands, "none" for workflow.py's driver
    task_status,        \* the status of the entry task_status[task_id]
    bg_sent             \* the types of the messages main.py's senders sent to the client

bgVars == <<bg_pc, task_status, bg_sent>>

\* the module global of workflow.py and the jobs' calls of get_agent_factory
VARIABLES
    global_agent_factory,   \* _global_agent_factory: 0 for None, else the instance
    constructions,          \* runs of the AgentFactory constructor that completed
    factory_calls,          \* per job, what each of its calls returned (0: it raised)
    agent_data,             \* per agent created, whose template data its config holds (0: none)
    job_agents,             \* per job, the agents create_role_agent returned to it, in order
    job_prompts             \* per job, whose template data each of its prompts was rendered from

factoryVars ==
    <<global_agent_factory, constructions, factory_calls, agent_data, job_agents,
      job_prompts>>

vars ==
    <<loopVars, textVars, factoryVars, pc, stage, attempt, driver, bgVars, cancelled, cancel_stage, connected, faults,
      template_ok, prompt_question, response, content, context, conclusion, section,
      events, event_stage, calls, call_stage, backoff, report, evaluation_result,
      best_result, best_word_diff, improved_report, candidates, improve_prompts, final_report,
      gsr_result, eai_result, job_result>>

hostVars ==
    <<driver, bgVars, cancelled, cancel_stage, connected, faults, loopVars, textVars, factoryVars>>

envVars == <<hostVars, prompt_question>>

chainVars == <<context, conclusion, section>>

improveVars ==
    <<evaluation_result, best_result, best_word_diff, improved_report, candidates, improve_prompts, final_report>>

resultVars == <<gsr_result, eai_result, job_result>>

Abs(x) == IF x < 0 THEN -x ELSE x

\* a callback whose checker was never set: the check always answers False
checker_unset == FALSE

\* a check that sees the flag only from the stage after the one it was set in
checker_stale == cancelled /\ cancel_stage < stage

\* ProgressCallback.check_task_cancelled, with the job's checker and task id set
check_task_cancelled == cancelled

\* ProgressCallback.ws_manager: main.generate_report_with_progress sets it,
\* workflow.generate_report_with_progress does not
ws_manager == driver = "main"

\* ConnectionManager.send_personal_message: True when the message was sent
send_personal_message == connected

\* a progress message that passed the cancellation checks of its emission
Event(kind, n) ==
    [kind |-> kind, n |-> n, delivered |-> ws_manager /\ send_personal_message]

\* ProgressCallback._send_progress once the checks have passed
Emit(kind, n) ==
    /\ events' = Append(events, Event(kind, n))
    /\ event_stage' = stage

\* a harness without its except Exception clause: no failure is retried
HarnessCatchesNothing(exc) == FALSE

\* except Exception of _call_agent_with_retry: asyncio.CancelledError derives
\* from BaseException and is re-raised by the clause before it
HarnessCatches(exc) == exc = "Exception"

\* a write() without its except clause: exhaustion reaches the controller
WriteCatchesNothing(exc) == FALSE

\* a bare except clause in write(), which catches BaseException as well
WriteCatchesBare(exc) == exc \in {"Exception", "CancelledError"}

\* except Exception of the roles' write()
WriteCatches(exc) == exc = "Exception"

\* a bare except clause in improve_report, which catches BaseException as well
ImproverCatchesBare(exc) == exc \in {"Exception", "CancelledError"}

\* except Exception of ReportImprover.improve_report
ImproverCatches(exc) == exc = "Exception"

\* a controller that substitutes the role's fallback for any exception
HandlerPcDefaulting(frame, exc) == IF exc = "Exception" THEN "w_except" ELSE "done"

\* where an exception raised in a frame of generate_single_report lands:
\* the harness's handler, the role's handler, or out of the controller,
\* whose two except clauses re-raise
HandlerPc(frame, exc) ==
    IF frame = "harness_try" /\ HarnessCatches(exc) THEN "h_except"
    ELSE IF frame \in {"harness_try", "write_try"} /\ WriteCatches(exc) THEN "w_except"
    ELSE "done"

RaiseInGenerate(frame, exc) ==
    /\ pc' = HandlerPc(frame, exc)
    /\ gsr_result' = IF HandlerPc(frame, exc) = "done" THEN exc ELSE gsr_result
    /\ job_result' = IF HandlerPc(frame, exc) = "done" THEN exc ELSE job_result
    /\ UNCHANGED eai_result

\* an exception leaving evaluate_and_improve_report, whose except clauses re-raise
RaiseInImprove(exc) ==
    /\ pc' = "done"
    /\ eai_result' = exc
    /\ job_result' = exc
    /\ UNCHANGED gsr_result

\* a controller that hands policy's text to every later stage
ContextForStale(s) == IF s <= 2 THEN <<>> ELSE section[2]

\* the context argument generate_single_report passes to the write() of stage s
ContextFor(s) == IF s <= 2 THEN <<>> ELSE section[s - 1]

\* the conclusion argument generate_single_report passes to the role of stage s
ConclusionFor(s) == IF s = 1 THEN <<>> ELSE section[1]

\* a constant delay, as improve_report has between its attempts
wait_time_fixed(a) == 2

\* wait_time = 2 ** attempt
wait_time(a) == 2 ^ a

\* the task ids of the two jobs
TaskIds == {"t1", "t2"}

\* request.client_id of each job: the jobs belong to different clients
client_id == [t \in TaskIds |-> IF t = "t1" THEN "c1" ELSE "c2"]

\* a model that answers every call with the same plain content of
\* word_limit words, and one that answers every call tersely: their answers
\* to stage s, the stages before having got theirs
StubResponses(s) ==
    (IF \A k \in 1..(s - 1) : section[k] = Hans(word_limit)
     THEN {AgentResponse(ExactContent, TRUE)}
     ELSE {})
    \cup
    (IF \A k \in 1..(s - 1) : section[k] = TerseContent(k)
     THEN {AgentResponse(TerseContent(s), TRUE)}
     ELSE {})

\* the jobs that call get_agent_factory
NumJobs == 4

Jobs == 1..NumJobs

\* the callback, the roles and the tasks as they are constructed
Constructed ==
    /\ global_agent_factory = 0
    /\ constructions = 0
    /\ factory_calls = [j \in Jobs |-> <<>>]
    /\ agent_data = <<>>
    /\ job_agents = [j \in Jobs |-> <<>>]
    /\ job_prompts = [j \in Jobs |-> <<>>]
    /\ tasks = [t \in TaskIds |-> [pc |-> "pending", attempt |-> 1]]
    /\ cancel_tokens = [t \in TaskIds |-> FALSE]
    /\ running_task = "idle"
    /\ outbox = {}
    /\ pc = "job_start"
    /\ stage = 1
    /\ attempt = 0
    /\ driver \in {"workflow", "main"}
    /\ cancelled = FALSE
    /\ cancel_stage = 0
    /\ connected \in (IF driver = "main" THEN BOOLEAN ELSE {FALSE})
    /\ bg_pc = (IF driver = "main" THEN "bg_start" ELSE "none")
    /\ task_status = "created"
    /\ bg_sent = {}
    /\ faults = 0
    /\ template_ok = TRUE
    /\ prompt_question = "none"
    /\ response = NoResponse
    /\ content = <<>>
    /\ context = <<>>
    /\ conclusion = <<>>
    /\ section = [s \in 1..NumStages |-> <<>>]
    /\ events = <<>>
    /\ event_stage = 0
    /\ calls = 0
    /\ call_stage = 0
    /\ backoff = <<>>
    /\ report = <<>>
    /\ evaluation_result = <<>>
    /\ best_result = <<>>
    /\ best_word_diff = 0
    /\ improved_report = <<>>
    /\ candidates = <<>>
    /\ improve_prompts = <<>>
    /\ final_report = <<>>
    /\ gsr_result = "none"
    /\ eai_result = "none"
    /\ job_result = "none"

Init ==
    /\ Constructed
    /\ text = <<>>
    /\ target = word_limit
    /\ callee = "none"
    /\ argument = <<>>
    /\ returned = FALSE
    /\ output = <<>>

\* ------------------------------------------------------------------------
\* generate_report_with_progress and generate_single_report
\* A step runs from one suspension point of the coroutine (a send to the
\* client, the blocking model call, a sleep) to the next; the cancellation
\* checks that follow one another without a suspension read the same flag.
\* ------------------------------------------------------------------------

\* generate_report_with_progress up to the call of generate_single_report;
\* only workflow.py's variant checks for cancellation here
JobStart ==
    /\ pc = "job_start"
    /\ driver = "main" => bg_pc = "bg_call"
    /\ IF driver = "workflow" /\ check_task_cancelled
       THEN /\ pc' = "done"
            /\ job_result' = "CancelledError"
       ELSE /\ pc' = "stage_begin"
            /\ UNCHANGED job_result
    /\ UNCHANGED <<stage, attempt, envVars, template_ok, response, content,
                   chainVars, events, event_stage, calls, call_stage, backoff,
                   report, improveVars, gsr_result, eai_result>>

\* whether the prompt template configured for a role renders with the role's
\* template data; one that does not fails every attempt of the stage
Renderings == {TRUE} \cup (IF faults + max_retries <= MaxFaults THEN {FALSE} ELSE {})

\* the cancellation check before a stage, get_agent_factory (stage 1),
\* factory.create_role_agent and the role's constructor
StageBegin ==
    /\ pc = "stage_begin"
    /\ IF check_task_cancelled
       THEN /\ RaiseInGenerate("controller", "CancelledError")
            /\ UNCHANGED <<attempt, template_ok, response, content, chainVars,
                           events, calls, backoff>>
       ELSE \E created \in BOOLEAN, renders \in Renderings :
              IF ~created
              THEN /\ RaiseInGenerate("controller", "Exception")
                   /\ UNCHANGED <<attempt, template_ok, response, content,
                                  chainVars, events, calls, backoff>>
              ELSE /\ pc' = "w_start"
                   /\ template_ok' = renders
                   /\ context' = ContextFor(stage)
                   /\ conclusion' = ConclusionFor(stage)
                   /\ attempt' = 0
                   /\ response' = NoResponse
                   /\ content' = <<>>
                   /\ events' = <<>>
                   /\ calls' = 0
                   /\ backoff' = <<>>
                   /\ UNCHANGED <<section, resultVars>>
    /\ UNCHANGED <<stage, envVars, event_stage, call_stage, report, improveVars>>

\* write(): on_agent_start, before the try block
WriteStart ==
    /\ pc = "w_start"
    /\ IF check_task_cancelled
       THEN /\ RaiseInGenerate("controller", "CancelledError")
            /\ UNCHANGED <<events, event_stage>>
       ELSE /\ Emit("start", 0)
            /\ pc' = "h_enter"
            /\ UNCHANGED resultVars
    /\ UNCHANGED <<stage, attempt, envVars, template_ok, response, content,
                   chainVars, calls, call_stage, backoff, report, improveVars>>

\* _call_agent_with_retry: the check on entry and on_agent_start
HarnessEnter ==
    /\ pc = "h_enter"
    /\ IF check_task_cancelled
       THEN /\ RaiseInGenerate("write_try", "CancelledError")
            /\ UNCHANGED <<events, event_stage, attempt>>
       ELSE /\ Emit("start", 0)
            /\ attempt' = 1
            /\ pc' = "a_begin"
            /\ UNCHANGED resultVars
    /\ UNCHANGED <<stage, envVars, template_ok, response, content, chainVars,
                   calls, call_stage, backoff, report, improveVars>>

\* an attempt: the check and on_agent_retry
AttemptBegin ==
    /\ pc = "a_begin"
    /\ IF check_task_cancelled
       THEN /\ RaiseInGenerate("harness_try", "CancelledError")
            /\ UNCHANGED <<events, event_stage>>
       ELSE /\ Emit("attempt", attempt)
            /\ pc' = "a_chat"
            /\ UNCHANGED resultVars
    /\ UNCHANGED <<stage, attempt, envVars, template_ok, response, content,
                   chainVars, calls, call_stage, backoff, report, improveVars>>

\* the harness's validation of a response: success, content, and at least
\* 5 characters after cleaning
Accepted(r) ==
    /\ r.success
    /\ r.content # <<>>
    /\ Len(clean_response(Strip(r.content))) >= 5

\* agent.update_template_data and agent.chat: BaseAgent.chat answers with a
\* failure, without invoking the model, when the template lacks a parameter
Chat ==
    /\ pc = "a_chat"
    /\ IF ~template_ok
       THEN /\ response' = NoResponse
            /\ faults' = faults + 1
            /\ UNCHANGED <<calls, call_stage, prompt_question>>
       ELSE /\ \E r \in ModelResponses(stage) \cup StubResponses(stage) :
                 /\ Accepted(r) \/ faults < MaxFaults
                 /\ response' = r
                 /\ faults' = IF Accepted(r) THEN faults ELSE faults + 1
            /\ calls' = calls + 1
            /\ call_stage' = stage
            /\ prompt_question' = FormatQuestion(RoleTemplateData, ChatMessage(stage))
    /\ pc' = "a_after_chat"
    /\ UNCHANGED <<stage, attempt, driver, bgVars, cancelled, cancel_stage, connected,
                   loopVars, textVars, factoryVars, template_ok, content, chainVars,
                   events,
                   event_stage, backoff, report, improveVars, resultVars>>

\* the check after the call, the validation of the response and
\* on_agent_success up to its progress message
AfterChat ==
    /\ pc = "a_after_chat"
    /\ IF check_task_cancelled
       THEN /\ RaiseInGenerate("harness_try", "CancelledError")
            /\ UNCHANGED <<content, events, event_stage>>
       ELSE IF Accepted(response)
       THEN LET c == clean_response(Strip(response.content))
            IN  /\ content' = c
                /\ Emit("success", Len(c))
                /\ pc' = "a_output"
                /\ UNCHANGED resultVars
       ELSE /\ RaiseInGenerate("harness_try", "Exception")
            /\ UNCHANGED <<content, events, event_stage>>
    /\ response' = NoResponse
    /\ UNCHANGED <<stage, attempt, envVars, template_ok, chainVars,
                   calls, call_stage, backoff, report, improveVars>>

\* on_agent_success: _send_agent_output, then the harness returns content.
\* When the manager reports the send as failed the name active_connections,
\* which workflow.py does not define, is evaluated in the else branch and
\* again in the except clause: a NameError leaves _send_agent_output.
AgentOutput ==
    /\ pc = "a_output"
    /\ IF check_task_cancelled
       THEN /\ RaiseInGenerate("harness_try", "CancelledError")
            /\ UNCHANGED <<events, event_stage>>
       ELSE IF ws_manager /\ ~send_personal_message
       THEN /\ RaiseInGenerate("harness_try", "Exception")
            /\ UNCHANGED <<events, event_stage>>
       ELSE /\ IF ws_manager
               THEN Emit("agent_output", Len(content))
               ELSE UNCHANGED <<events, event_stage>>
            /\ pc' = "w_after_harness"
            /\ UNCHANGED resultVars
    /\ UNCHANGED <<stage, attempt, envVars, template_ok, response, content,
                   chainVars, calls, call_stage, backoff, report, improveVars>>

\* except Exception of the harness: the check, on_agent_error, and after the
\* last attempt raise last_exception
HarnessExcept ==
    /\ pc = "h_except"
    /\ IF check_task_cancelled
       THEN /\ RaiseInGenerate("write_try", "CancelledError")
            /\ UNCHANGED <<events, event_stage>>
       ELSE /\ Emit("error", attempt)
            /\ IF attempt < max_retries
               THEN /\ pc' = "h_sleep"
                    /\ UNCHANGED resultVars
               ELSE RaiseInGenerate("write_try", "Exception")
    /\ UNCHANGED <<stage, attempt, envVars, template_ok, response, content,
                   chainVars, calls, call_stage, backoff, report, improveVars>>

\* time.sleep(wait_time) and the next iteration of the loop
\* a loop that repeats the attempt it was in
SameAttempt(n) == n

\* for attempt in range(1, max_retries + 1): the next value of the loop
NextAttempt(n) == n + 1

Backoff ==
    /\ pc = "h_sleep"
    /\ backoff' = Append(backoff, wait_time(attempt))
    /\ attempt' = NextAttempt(attempt)
    /\ pc' = "a_begin"
    /\ UNCHANGED <<stage, envVars, template_ok, response, content, chainVars,
                   events, event_stage, calls, call_stage, report,
                   improveVars, resultVars>>

\* where the controller goes when the write() of stage s has returned
AfterStagePc(s) == IF s < NumStages THEN "stage_begin" ELSE "assemble"

\* a controller that leaves out the stage after the one that returned
AfterStageSkipping(s) == IF s < NumStages - 1 THEN s + 2 ELSE s

AfterStage(s) == IF s < NumStages THEN s + 1 ELSE s

\* a conclusion role that takes any conclusion that is not empty
ConclusionAcceptedAny(c) == Len(c) > 0

\* if conclusion and len(conclusion) >= 10
ConclusionAccepted(c) == Len(c) >= 10

\* write() after the harness returned: ConclusionGenerator checks the length
\* of the conclusion, the section roles send on_report_section_complete
WriteFinish ==
    /\ pc = "w_after_harness"
    /\ IF stage = 1
       THEN LET c == Strip(clean_response(content))
            IN  IF ConclusionAccepted(c)
                THEN /\ section' = [section EXCEPT ![stage] = remove_markdown(c)]
                     /\ pc' = AfterStagePc(stage)
                     /\ stage' = AfterStage(stage)
                     /\ UNCHANGED <<events, event_stage, resultVars>>
                ELSE /\ RaiseInGenerate("write_try", "Exception")
                     /\ UNCHANGED <<section, stage, events, event_stage>>
       ELSE LET c == remove_markdown(clean_response(content))
            IN  IF check_task_cancelled
                THEN /\ RaiseInGenerate("write_try", "CancelledError")
                     /\ UNCHANGED <<section, stage, events, event_stage>>
                ELSE /\ Emit("section", count_words(c))
                     /\ section' = [section EXCEPT ![stage] = c]
                     /\ pc' = AfterStagePc(stage)
                     /\ stage' = AfterStage(stage)
                     /\ UNCHANGED resultVars
    /\ UNCHANGED <<attempt, envVars, template_ok, response, content, context,
                   conclusion, calls, call_stage, backoff, report, improveVars>>

\* except Exception of write(): the role's fixed sentence is returned
WriteExcept ==
    /\ pc = "w_except"
    /\ section' = [section EXCEPT ![stage] = Fallback(stage)]
    /\ pc' = AfterStagePc(stage)
    /\ stage' = AfterStage(stage)
    /\ UNCHANGED <<attempt, envVars, template_ok, response, content, context,
                   conclusion, events, event_stage, calls, call_stage, backoff,
                   report, improveVars, resultVars>>

\* f"{conclusion}\n\n{policy_section}\n\n..." cleaned and stripped of markdown
full_report ==
    remove_markdown(clean_response(
        Join([s \in 1..NumStages |-> section[s]], <<"\n", "\n">>)))

\* a report whose word_count is the number of characters of the text
ReportDataByLength(answer) == [answer |-> answer, word_count |-> Len(answer)]

\* the dictionary generate_single_report returns for the text answer
ReportData(answer) == [answer |-> answer, word_count |-> count_words(answer)]

\* step 7 of generate_single_report: the check after stage 6, the assembly,
\* the last check and the return, which ends the roles and their harnesses
Assemble ==
    /\ pc = "assemble"
    /\ IF check_task_cancelled
       THEN /\ RaiseInGenerate("controller", "CancelledError")
            /\ UNCHANGED <<report, stage, attempt, template_ok, content,
                           context, conclusion, events, calls, backoff>>
       ELSE /\ report' = <<ReportData(full_report)>>
            /\ gsr_result' = "returned"
            /\ pc' = "eval_begin"
            /\ stage' = EvalStage
            /\ attempt' = 0
            /\ template_ok' = TRUE
            /\ content' = <<>>
            /\ context' = <<>>
            /\ conclusion' = <<>>
            /\ events' = <<>>
            /\ calls' = 0
            /\ backoff' = <<>>
            /\ UNCHANGED <<eai_result, job_result>>
    /\ UNCHANGED <<envVars, response, section, event_stage, call_stage,
                   improveVars>>

\* ------------------------------------------------------------------------
\* evaluate_and_improve_report
\* ------------------------------------------------------------------------

\* the check between the two halves, with which workflow.py's driver raises
\* before it calls evaluate_and_improve_report; the check on entry,
\* create_role_agent for the evaluator, and evaluate_report up to
\* on_evaluation_start
EvalBegin ==
    /\ pc = "eval_begin"
    /\ IF check_task_cancelled
       THEN /\ IF driver = "workflow"
               THEN /\ pc' = "done"
                    /\ job_result' = "CancelledError"
                    /\ UNCHANGED <<gsr_result, eai_result>>
               ELSE RaiseInImprove("CancelledError")
            /\ UNCHANGED <<events, event_stage>>
       ELSE \E created \in BOOLEAN :
              IF ~created
              THEN /\ RaiseInImprove("Exception")
                   /\ UNCHANGED <<events, event_stage>>
              ELSE /\ Emit("evaluation_start", 0)
                   /\ pc' = "eval_chat"
                   /\ UNCHANGED resultVars
    /\ UNCHANGED <<stage, attempt, envVars, template_ok, response, content,
                   chainVars, calls, call_stage, backoff, report, improveVars>>

\* the metrics evaluate_report computes before it asks the model
word_diff(answer) == Abs(count_words(answer) - word_limit)

\* an evaluate_report that does not look at response.success
EvaluationUnchecked(r) ==
    <<[evaluation |-> clean_response(r.content),
       actual_word_count |-> count_words(report[1].answer),
       word_difference |-> word_diff(report[1].answer)]>>

\* what evaluate_report returns for a response of the evaluator's model
Evaluation(r) ==
    IF r.success
    THEN <<[evaluation |-> clean_response(r.content),
            actual_word_count |-> count_words(report[1].answer),
            word_difference |-> word_diff(report[1].answer)]>>
    ELSE <<>>

\* evaluate_report: the model call and the returned dictionary (or None)
EvalChat ==
    /\ pc = "eval_chat"
    /\ \E r \in EvaluatorResponses :
         /\ response' = r
         /\ evaluation_result' = Evaluation(r)
    /\ calls' = calls + 1
    /\ call_stage' = EvalStage
    /\ prompt_question' = FormatQuestion(RoleTemplateData, ChatMessage(EvalStage))
    /\ pc' = "eval_after"
    /\ UNCHANGED <<stage, attempt, hostVars, template_ok, content,
                   chainVars, events, event_stage, backoff, report, best_result,
                   best_word_diff, improved_report, candidates, improve_prompts, final_report,
                   resultVars>>

\* a workflow that also leaves a report alone whose word count matches
EvaluationFailedOrMatched(e) == e = <<>> \/ e[1].word_difference = 0

\* if not evaluation_result
EvaluationFailed(e) == e = <<>>

\* after evaluate_report: the check, the early return of the report when
\* there is no evaluation, create_role_agent for the improver and the
\* initialisation of improve_report
EvalAfter ==
    /\ pc = "eval_after"
    /\ IF check_task_cancelled
       THEN /\ RaiseInImprove("CancelledError")
            /\ UNCHANGED <<stage, attempt, best_result, best_word_diff,
                           final_report>>
       ELSE IF EvaluationFailed(evaluation_result)
       THEN /\ final_report' = report
            /\ eai_result' = "returned"
            /\ job_result' = "returned"
            /\ pc' = "done"
            /\ UNCHANGED <<stage, attempt, best_result, best_word_diff,
                           gsr_result>>
       ELSE \E created \in BOOLEAN :
              IF ~created
              THEN /\ RaiseInImprove("Exception")
                   /\ UNCHANGED <<stage, attempt, best_result, best_word_diff,
                                  final_report>>
              ELSE /\ stage' = ImproveStage
                   /\ attempt' = 1
                   /\ best_result' = report[1].answer
                   /\ best_word_diff' = word_diff(report[1].answer)
                   /\ pc' = "imp_begin"
                   /\ UNCHANGED <<final_report, resultVars>>
    /\ response' = NoResponse
    /\ UNCHANGED <<envVars, template_ok, content, chainVars, events,
                   event_stage, calls, call_stage, backoff, report,
                   evaluation_result, improved_report, candidates, improve_prompts>>

\* an attempt of improve_report: on_improvement_start, outside the try block
ImpBegin ==
    /\ pc = "imp_begin"
    /\ IF check_task_cancelled
       THEN /\ RaiseInImprove("CancelledError")
            /\ UNCHANGED <<events, event_stage>>
       ELSE /\ Emit("improvement_start", attempt)
            /\ pc' = "imp_chat"
            /\ UNCHANGED resultVars
    /\ UNCHANGED <<stage, attempt, envVars, template_ok, response, content,
                   chainVars, calls, call_stage, backoff, report, improveVars>>

\* a comparison that prefers whatever the latest attempt produced
CloserAlways(diff, best) == TRUE

\* a comparison that lets the later of two equally distant texts win
CloserOrEqual(diff, best) == diff <= best

\* elif word_diff < best_word_diff
Closer(diff, best) == diff < best

\* an improver that works on the best text so far
ImproverTemplateDataChained(report_data, evaluation) ==
    [original_report |-> best_result,
     evaluation_feedback |-> evaluation.evaluation,
     current_actual_word_count |-> count_words(best_result),
     current_word_difference |-> best_word_diff]

\* the template data of an attempt of improve_report
ImproverTemplateData(report_data, evaluation) ==
    [original_report |-> report_data.answer,
     evaluation_feedback |-> evaluation.evaluation,
     current_actual_word_count |-> evaluation.actual_word_count,
     current_word_difference |-> evaluation.word_difference]

\* the model call of the attempt and the comparison with the target
ImpChat ==
    /\ pc = "imp_chat"
    /\ improve_prompts' =
          Append(improve_prompts, ImproverTemplateData(report[1], evaluation_result[1]))
    /\ \E r \in ImproverResponses :
         LET improved_answer == remove_markdown(clean_response(r.content))
             improved_word_count == count_words(improved_answer)
         IN  /\ candidates' = IF r.success THEN Append(candidates, improved_answer)
                                           ELSE candidates
             /\ IF r.success /\ improved_word_count = word_limit
                THEN /\ content' = improved_answer
                     /\ pc' = "imp_success"
                     /\ UNCHANGED <<best_result, best_word_diff>>
                ELSE IF r.success /\ Closer(word_diff(improved_answer), best_word_diff)
                THEN /\ best_result' = improved_answer
                     /\ best_word_diff' = word_diff(improved_answer)
                     /\ pc' = "imp_next"
                     /\ UNCHANGED content
                ELSE /\ pc' = "imp_next"
                     /\ UNCHANGED <<content, best_result, best_word_diff>>
    /\ calls' = calls + 1
    /\ call_stage' = ImproveStage
    /\ prompt_question' = FormatQuestion(RoleTemplateData, ChatMessage(ImproveStage))
    /\ UNCHANGED <<stage, attempt, hostVars, template_ok, response, chainVars,
                   events, event_stage, backoff, report, evaluation_result,
                   improved_report, final_report, resultVars>>

\* on_improvement_success, inside the try block, and the return of the
\* exactly matching text
ImpSuccess ==
    /\ pc = "imp_success"
    /\ IF check_task_cancelled
       THEN /\ IF ImproverCatches("CancelledError")
               THEN /\ pc' = "imp_next"
                    /\ UNCHANGED resultVars
               ELSE RaiseInImprove("CancelledError")
            /\ UNCHANGED <<events, event_stage, improved_report>>
       ELSE /\ Emit("improvement_success", count_words(content))
            /\ improved_report' = <<[answer |-> content,
                                     word_count |-> count_words(content),
                                     improved |-> TRUE]>>
            /\ pc' = "eai_final"
            /\ UNCHANGED resultVars
    /\ UNCHANGED <<stage, attempt, envVars, template_ok, response, content,
                   chainVars, calls, call_stage, backoff, report,
                   evaluation_result, best_result, best_word_diff, candidates, improve_prompts,
                   final_report>>

\* an improver whose delay doubles with the attempt, as the harness's does
improve_wait_growing(n) == 2 ^ n

\* time.sleep(2) of improve_report, in the try block and in its handler
improve_wait(n) == 2

\* the end of an attempt that did not match: time.sleep(2) and the next
\* attempt, or after the last attempt the return of the best text
ImpNext ==
    /\ pc = "imp_next"
    /\ IF attempt < max_attempts
       THEN /\ backoff' = Append(backoff, improve_wait(attempt))
            /\ attempt' = attempt + 1
            /\ pc' = "imp_begin"
            /\ UNCHANGED improved_report
       ELSE /\ improved_report' = <<[answer |-> best_result,
                                     word_count |-> count_words(best_result),
                                     improved |-> FALSE]>>
            /\ pc' = "eai_final"
            /\ UNCHANGED <<backoff, attempt>>
    /\ UNCHANGED <<stage, envVars, template_ok, response, content, chainVars,
                   events, event_stage, calls, call_stage, report,
                   evaluation_result, best_result, best_word_diff,
                   candidates, improve_prompts, final_report, resultVars>>

\* a workflow that hands back the report it was given
FinalReportUnimproved(report_data, improved) == report_data

\* return improved_report
FinalReport(report_data, improved) == improved

\* after improve_report: the last check of evaluate_and_improve_report, the
\* check of workflow.py's driver, and the return of the final report
EaiFinal ==
    /\ pc = "eai_final"
    /\ IF check_task_cancelled
       THEN /\ RaiseInImprove("CancelledError")
            /\ UNCHANGED final_report
       ELSE /\ final_report' = FinalReport(report, improved_report)
            /\ eai_result' = "returned"
            /\ job_result' = "returned"
            /\ pc' = "done"
            /\ UNCHANGED gsr_result
    /\ UNCHANGED <<stage, attempt, envVars, template_ok, response, content,
                   chainVars, events, event_stage, calls, call_stage, backoff,
                   report, evaluation_result, best_result, best_word_diff,
                   improved_report, candidates, improve_prompts>>

\* ------------------------------------------------------------------------
\* The environment of the job
\* ------------------------------------------------------------------------

\* cancel_task: cancel_tokens[task_id] = True while the job is running
SetCancel ==
    /\ IF driver = "main" THEN bg_pc # "bg_end" ELSE pc # "done"
    /\ ~cancelled
    /\ cancelled' = TRUE
    /\ cancel_stage' = IF pc = "done" THEN ImproveStage + 1 ELSE stage
    /\ UNCHANGED <<pc, stage, attempt, driver, bgVars, connected, faults, loopVars, textVars,
                   factoryVars, template_ok, prompt_question,
                   response, content, chainVars, events, event_stage, calls,
                   call_stage, backoff, report, improveVars, resultVars>>

\* send_progress_update, send_cancel_message, send_error_message and
\* send_completion_message: the status is stored, and the message is sent
\* when the client is among the connections
Record(status, type) ==
    /\ task_status' = status
    /\ bg_sent' = IF connected THEN bg_sent \cup {type} ELSE bg_sent

\* what a step of generate_report_background leaves alone
BgFrame ==
    UNCHANGED <<loopVars, textVars, factoryVars, pc, stage, attempt, driver,
                cancelled, cancel_stage, connected, faults, template_ok,
                prompt_question, response, content, chainVars, events,
                event_stage, calls, call_stage, backoff, report, improveVars,
                resultVars>>

\* a check of generate_report_background followed by a progress update:
\* when the flag is set the cancel message is sent and the task returns
BgCheckThen(at) ==
    IF cancelled
    THEN /\ Record("cancelled", "cancelled")
         /\ bg_pc' = "bg_end"
    ELSE /\ Record("running", "progress_update")
         /\ bg_pc' = at

\* the first check and the progress update of the data collection
BgStart ==
    /\ bg_pc = "bg_start"
    /\ BgCheckThen("bg_collect")
    /\ BgFrame

\* the data collection returns or raises; the check after it and the
\* progress update of the initialisation
BgCollected ==
    /\ bg_pc = "bg_collect"
    /\ \E collected \in BOOLEAN :
         IF collected
         THEN BgCheckThen("bg_init")
         ELSE /\ Record("error", "error")
              /\ bg_pc' = "bg_end"
    /\ BgFrame

\* the check before the report and the progress update of the generation;
\* generate_report_with_progress is called next
BgInit ==
    /\ bg_pc = "bg_init"
    /\ BgCheckThen("bg_call")
    /\ BgFrame

\* a task that sends the completion message without a last check
FinalCheckSkipped == FALSE

\* the check after generate_report_with_progress returned
FinalCheck == cancelled

\* generate_report_with_progress has ended: the final check and the
\* completion message after a return, the cancel message after
\* CancelledError, the error message after any other exception
BgReturn ==
    /\ bg_pc = "bg_call"
    /\ pc = "done"
    /\ IF job_result = "returned"
       THEN IF FinalCheck
            THEN Record("cancelled", "cancelled")
            ELSE Record("completed", "completion")
       ELSE IF job_result = "CancelledError"
       THEN Record("cancelled", "cancelled")
       ELSE Record("error", "error")
    /\ bg_pc' = "bg_end"
    /\ BgFrame

Next ==
    \/ BgStart
    \/ BgCollected
    \/ BgInit
    \/ BgReturn
    \/ JobStart
    \/ StageBegin
    \/ WriteStart
    \/ HarnessEnter
    \/ AttemptBegin
    \/ Chat
    \/ AfterChat
    \/ AgentOutput
    \/ HarnessExcept
    \/ Backoff
    \/ WriteFinish
    \/ WriteExcept
    \/ Assemble
    \/ EvalBegin
    \/ EvalChat
    \/ EvalAfter
    \/ ImpBegin
    \/ ImpChat
    \/ ImpSuccess
    \/ ImpNext
    \/ EaiFinal
    \/ SetCancel

Spec == Init /\ [][Next]_vars

\* ------------------------------------------------------------------------
\* Two jobs on the event loop
\* create_report_task adds generate_report_background to the background
\* tasks, which run as coroutines of the server's one event loop.  Each job
\* is followed through the retry harness of one stage.  The loop's thread
\* runs a task from one suspension point to the next; a task suspends where
\* it awaits the websocket send of a progress message.  agent.chat and
\* time.sleep are plain calls: the thread stays in them until they return.
\* ------------------------------------------------------------------------

\* the variables of the single job followed by the actions above
jobVars ==
    <<textVars, factoryVars, pc, stage, attempt, driver, bgVars, cancelled, cancel_stage, connected, faults,
      template_ok, prompt_question, response, content, chainVars, events,
      event_stage, calls, call_stage, backoff, report, improveVars, resultVars>>

\* a checker that answers for every task once any token is set
cancel_checker_shared(t) == \E k \in TaskIds : cancel_tokens[k]

\* cancel_checker=check_task_cancelled of main.py: cancel_tokens.get(task_id, False)
cancel_checker(t) == cancel_tokens[t]

\* a callback that addresses every message to the first job's client
RecipientFirst(t) == client_id["t1"]

\* self.client_id, the second argument of send_personal_message
Recipient(t) == client_id[t]

\* where a task waits for the loop: not yet started, or in the awaited send
\* of a message to its connected client
Suspended ==
    {"pending", "sending_start", "sending_attempt", "sending_error", "sending_success"}

\* the task sends a progress message and is suspended in the send
SendAndSuspend(t, kind, a, at) ==
    /\ outbox' = outbox \cup {[task |-> t, to |-> Recipient(t), kind |-> kind, n |-> a]}
    /\ tasks' = [tasks EXCEPT ![t] = [pc |-> at, attempt |-> a]]
    /\ running_task' = "idle"

\* the task's coroutine ends
Finish(t, how) ==
    /\ tasks' = [tasks EXCEPT ![t].pc = how]
    /\ running_task' = "idle"
    /\ UNCHANGED outbox

\* the top of attempt a: the cancellation checks, then on_agent_retry
AttemptStart(t, a) ==
    IF cancel_checker(t)
    THEN Finish(t, "cancelled")
    ELSE SendAndSuspend(t, "attempt", a, "sending_attempt")

\* the thread goes on in t without a suspension: into agent.chat or time.sleep
Block(t, at) ==
    /\ tasks' = [tasks EXCEPT ![t].pc = at]
    /\ running_task' = t
    /\ UNCHANGED outbox

\* the idle loop runs a task that is ready, up to its next suspension or
\* into its next blocking call
ResumeTask(t) ==
    /\ running_task = "idle"
    /\ tasks[t].pc \in Suspended
    /\ CASE tasks[t].pc = "pending" ->
              IF cancel_checker(t)
              THEN Finish(t, "cancelled")
              ELSE SendAndSuspend(t, "start", 1, "sending_start")
         [] tasks[t].pc = "sending_start" -> AttemptStart(t, 1)
         [] tasks[t].pc = "sending_attempt" -> Block(t, "calling")
         [] tasks[t].pc = "sending_error" ->
              IF tasks[t].attempt < max_retries
              THEN Block(t, "sleeping")
              ELSE Finish(t, "exhausted")
         [] tasks[t].pc = "sending_success" -> Finish(t, "done")
    /\ UNCHANGED <<cancel_tokens, jobVars>>

\* agent.chat returns: the check, then on_agent_success or, from the except
\* clause, on_agent_error
ChatReturn ==
    \E t \in TaskIds :
        /\ running_task = t
        /\ tasks[t].pc = "calling"
        /\ IF cancel_checker(t)
           THEN Finish(t, "cancelled")
           ELSE \E ok \in BOOLEAN :
                  IF ok
                  THEN SendAndSuspend(t, "success", tasks[t].attempt, "sending_success")
                  ELSE SendAndSuspend(t, "error", tasks[t].attempt, "sending_error")
        /\ UNCHANGED <<cancel_tokens, jobVars>>

\* time.sleep returns and the next iteration of the loop begins
Wake ==
    \E t \in TaskIds :
        /\ running_task = t
        /\ tasks[t].pc = "sleeping"
        /\ AttemptStart(t, tasks[t].attempt + 1)
        /\ UNCHANGED <<cancel_tokens, jobVars>>

\* the request handler cancel_task, run by the loop when it is idle
cancel_task(t) ==
    /\ running_task = "idle"
    /\ ~cancel_tokens[t]
    /\ cancel_tokens' = [cancel_tokens EXCEPT ![t] = TRUE]
    /\ UNCHANGED <<tasks, running_task, outbox, jobVars>>

LoopInit == Init /\ driver = "workflow"

LoopNext ==
    \/ \E t \in TaskIds : ResumeTask(t)
    \/ ChatReturn
    \/ Wake
    \/ \E t \in TaskIds : cancel_task(t)

LoopSpec == LoopInit /\ [][LoopNext]_vars

\* ------------------------------------------------------------------------
\* The shared agent factory
\* get_agent_factory is a plain function: a call runs from its test of the
\* global to its return without a suspension point, whichever job makes it.
\* A job calls it at the start of generate_single_report and again at the
\* start of evaluate_and_improve_report; when the constructor raises, the
\* exception ends the job.
\* ------------------------------------------------------------------------

\* a factory that tests nothing and constructs on every call
ConstructAlways(g) == TRUE

\* if _global_agent_factory is None
NotConstructed(g) == g = 0

\* the call returns instance f to job j
FactoryReturn(j, f) == factory_calls' = [factory_calls EXCEPT ![j] = Append(@, f)]

get_agent_factory(j) ==
    /\ Len(factory_calls[j]) < 2
    /\ 0 \notin {factory_calls[j][k] : k \in 1..Len(factory_calls[j])}
    /\ IF NotConstructed(global_agent_factory)
       THEN \E ok \in BOOLEAN :
              IF ok
              THEN /\ constructions' = constructions + 1
                   /\ global_agent_factory' = constructions + 1
                   /\ FactoryReturn(j, constructions + 1)
              ELSE /\ FactoryReturn(j, 0)
                   /\ UNCHANGED <<global_agent_factory, constructions>>
       ELSE /\ FactoryReturn(j, global_agent_factory)
            /\ UNCHANGED <<global_agent_factory, constructions>>
    /\ UNCHANGED <<agent_data, job_agents, job_prompts>>
    /\ UNCHANGED <<loopVars, textVars, pc, stage, attempt, driver, bgVars, cancelled,
                   cancel_stage, connected, faults, template_ok, prompt_question,
                   response, content, chainVars, events, event_stage, calls,
                   call_stage, backoff, report, improveVars, resultVars>>

\* the agents all jobs together create
MaxAgents == 2

\* a factory that keeps one agent and hands it to every caller
CachedAgent(agents) == 1

\* agent_class(agent_config, template_data=template_data): a new agent
\* with a new AgentConfig
NewAgent(agents) == Len(agents) + 1

\* the agent of the stage job j is in, 0 when it has none
CurrentAgent(j) ==
    IF Len(job_prompts[j]) < Len(job_agents[j])
    THEN job_agents[j][Len(job_agents[j])]
    ELSE 0

\* what the other variables do in a step of an agent
AgentFrame ==
    UNCHANGED <<global_agent_factory, constructions, factory_calls, loopVars,
                textVars, pc, stage, attempt, driver, bgVars, cancelled, cancel_stage,
                connected, faults, template_ok, prompt_question, response,
                content, chainVars, events, event_stage, calls, call_stage,
                backoff, report, improveVars, resultVars>>

\* factory.create_role_agent of the next stage of job j, which holds the
\* factory; the template data of a new AgentConfig is an empty dictionary
create_role_agent(j) ==
    /\ factory_calls[j] # <<>>
    /\ factory_calls[j][Len(factory_calls[j])] # 0
    /\ CurrentAgent(j) = 0
    /\ Len(agent_data) < MaxAgents
    /\ LET a == NewAgent(agent_data)
       IN  /\ agent_data' = IF a > Len(agent_data) THEN Append(agent_data, 0)
                                                   ELSE agent_data
           /\ job_agents' = [job_agents EXCEPT ![j] = Append(@, a)]
    /\ UNCHANGED job_prompts
    /\ AgentFrame

\* self.agent.update_template_data(template_data) of job j's stage
update_template_data(j) ==
    /\ CurrentAgent(j) # 0
    /\ agent_data[CurrentAgent(j)] # j
    /\ agent_data' = [agent_data EXCEPT ![CurrentAgent(j)] = j]
    /\ UNCHANGED <<job_agents, job_prompts>>
    /\ AgentFrame

\* self.agent.chat of job j's stage: the prompt is rendered from the
\* template data of the agent's config
agent_chat(j) ==
    /\ CurrentAgent(j) # 0
    /\ agent_data[CurrentAgent(j)] # 0
    /\ job_prompts' = [job_prompts EXCEPT ![j] = Append(@, agent_data[CurrentAgent(j)])]
    /\ UNCHANGED <<agent_data, job_agents>>
    /\ AgentFrame

FactoryInit == Init /\ driver = "workflow"

FactoryNext ==
    \/ \E j \in Jobs : get_agent_factory(j)
    \/ \E j \in Jobs : create_role_agent(j)
    \/ \E j \in Jobs : update_template_data(j)
    \/ \E j \in Jobs : agent_chat(j)

FactorySpec == FactoryInit /\ [][FactoryNext]_vars

\* ------------------------------------------------------------------------
\* Calls of the text helpers and of the evaluator's arithmetic
\* A text and the function it is for are drawn at the start; the function
\* is then called with it.
\* ------------------------------------------------------------------------

\* the longest text, in characters, given to count_words and remove_markdown
MaxTextLen == 4

\* the longest text, in blocks, given to clean_response
MaxBlocks == 3

\* the longest answer, in words, and the largest word_limit given to the evaluator
MaxWords == 7

MaxTarget == 3

\* the sequences over S of length n or less
SeqsUpTo(S, n) == UNION {[1..k -> S] : k \in 0..n}

\* texts for count_words: Han, Latin, digits, the decimal point, whitespace,
\* another character, and the delimiters of a tag
CountTexts == SeqsUpTo({"han", "a", "1", ".", " ", ",", "<", ">"}, MaxTextLen)

\* texts for remove_markdown: heading, list and quote markers, a numbered
\* item, whitespace and content
MarkdownTexts == SeqsUpTo({"#", "-", ">", "1", ".", " ", "\n", "a"}, MaxTextLen)

\* pieces of a model answer: a long line of meta-commentary, sentences, a
\* short line, a tag, a blank line
Blocks ==
    {<<"xu", "yao">> \o Hans(10) \o <<"\n">>,
     Hans(6) \o <<"zh_stop", "\n">>,
     <<"fen", "xi", "zh_colon">> \o Hans(3) \o <<"zh_stop">>,
     <<"han", "han", "\n">>,
     <<"<", "a", ">">>,
     <<" ", "\n", "\n">>}

\* texts for clean_response
CleanTexts == {Join(bs, <<>>) : bs \in SeqsUpTo(Blocks, MaxBlocks)}

\* answers for evaluate_report, of 0 to MaxWords words
Answers == {Hans(n) : n \in 0..MaxWords}

\* the texts drawn for function f
InputsOf(f) ==
    CASE f = "count_words" -> CountTexts
      [] f = "remove_markdown" -> MarkdownTexts
      [] f = "clean_response" -> CleanTexts
      [] f = "evaluate_report" -> Answers

\* max(0, 100 - ...) left out
word_match_rate_unfloored(actual_word_count, limit) ==
    [num |-> 100 * limit - 100 * Abs(actual_word_count - limit), den |-> limit]

\* workflow.py:732-733: max(0, 100 - (word_diff / word_limit * 100)), as the
\* fraction num / den with den = word_limit
word_match_rate(actual_word_count, limit) ==
    [num |-> MaxOf({0, 100 * limit - 100 * Abs(actual_word_count - limit)}),
     den |-> limit]

\* ws + '<b>' + t + '</b>' + ws
Wrapped(ws, t) == ws \o <<"<", "b", ">">> \o t \o <<"<", "/", "b", ">">> \o ws

\* leading and trailing whitespace
Margins == {<<>>, <<" ">>, <<"\n", " ">>}

\* the call of function f with str a returns r
Call(f, a, r) ==
    /\ callee = f
    /\ argument' = a
    /\ returned' = TRUE
    /\ output' = r
    /\ UNCHANGED <<text, target, callee, loopVars, factoryVars, pc, stage, attempt,
                   driver, bgVars, cancelled, cancel_stage, connected, faults, template_ok,
                   prompt_question, response, content, chainVars, events, event_stage, calls,
                   call_stage, backoff, report, improveVars, resultVars>>

CallCountWords ==
    /\ ~returned
    /\ Call("count_words", text, count_words(text))

\* count_words called with the text between a pair of tags
CallCountWordsWrapped ==
    /\ ~returned
    /\ \E ws \in Margins :
          Call("count_words", Wrapped(ws, text), count_words(Wrapped(ws, text)))

CallCleanResponse ==
    /\ ~returned
    /\ Call("clean_response", text, clean_response(text))

CallRemoveMarkdown ==
    /\ ~returned
    /\ Call("remove_markdown", text, remove_markdown(text))

\* remove_markdown called with what the call before returned
CallRemoveMarkdownAgain ==
    /\ callee = "remove_markdown"
    /\ returned
    /\ argument # output
    /\ Call("remove_markdown", output, remove_markdown(output))

\* evaluate_report: actual_word_count, then word_match_rate
CallEvaluate ==
    /\ ~returned
    /\ Call("evaluate_report", text, word_match_rate(count_words(text), target))

TextInit ==
    /\ Constructed
    /\ driver = "workflow"
    /\ callee \in {"count_words", "remove_markdown", "clean_response", "evaluate_report"}
    /\ text \in InputsOf(callee)
    /\ target \in (IF callee = "evaluate_report" THEN 1..MaxTarget ELSE {word_limit})
    /\ argument = <<>>
    /\ returned = FALSE
    /\ output = <<>>

TextNext ==
    \/ CallCountWords
    \/ CallCountWordsWrapped
    \/ CallCleanResponse
    \/ CallRemoveMarkdown
    \/ CallRemoveMarkdownAgain
    \/ CallEvaluate

TextSpec == TextInit /\ [][TextNext]_vars

\* ------------------------------------------------------------------------
\* Properties
\* ------------------------------------------------------------------------

\* the job stands at a cancellation check inside a role's write(): the
\* emission of stage-start, the entry of the harness, the start of an
\* attempt, after the model call, the emission of the agent output, the
\* failure handler, the emission of section-complete
WriteCheckPoint ==
    \/ pc \in {"w_start", "h_enter", "a_begin", "a_after_chat", "a_output", "h_except"}
    \/ pc = "w_after_harness" /\ stage > 1

\* C1: a positive cancellation check at any check point inside a role's
\* write makes CancelledError leave write and generate_single_report: the
\* step ends the job with that error, starts no further attempt and stores
\* no default conclusion or placeholder for the stage.
C1_CancelPropagates ==
    [][(WriteCheckPoint /\ cancelled /\ pc' # pc) =>
          /\ pc' = "done"
          /\ gsr_result' = "CancelledError"
          /\ job_result' = "CancelledError"
          /\ attempt' = attempt
          /\ section' = section]_vars

\* C1 happens: the job was cancelled during the second attempt of the third
\* stage and ended with CancelledError, the stage's section unwritten
C1_Witness ==
    /\ pc = "done"
    /\ gsr_result = "CancelledError"
    /\ stage = 3
    /\ attempt = 2
    /\ section[3] = <<>>

\* C2: when the cancel checker returns true from stage k (1..6) on,
\* generate_single_report returns no report, ends in CancelledError when it
\* ends (workflow.py's driver may raise it before the call), and no progress
\* event is emitted and no model invocation started for a stage after k.
C2_NoLaterStage ==
    (cancelled /\ cancel_stage <= NumStages) =>
        /\ gsr_result # "returned"
        /\ report = <<>>
        /\ event_stage <= cancel_stage
        /\ call_stage <= cancel_stage
        /\ (pc = "done" =>
              /\ job_result = "CancelledError"
              /\ \/ gsr_result = "CancelledError"
                 \/ gsr_result = "none" /\ driver = "workflow" /\ event_stage = 0)

\* C2 happens: cancelled from the third stage, which had sent events and
\* called the model; the job ended with CancelledError
C2_Witness ==
    /\ cancelled
    /\ cancel_stage = 3
    /\ event_stage = 3
    /\ call_stage = 3
    /\ pc = "done"
    /\ gsr_result = "CancelledError"

\* the job stands at the emission of a progress event
EmissionPoint ==
    \/ WriteCheckPoint
    \/ pc \in {"eval_begin", "imp_begin", "imp_success"}

\* C3: every emission checks for cancellation before it delivers: while the
\* checker returns true no message is added to those sent to the observer,
\* and a step from an emission point ends the job with CancelledError.
C3_NoEventWhenCancelled ==
    [][cancelled =>
          /\ events' = events
          /\ event_stage' = event_stage
          /\ (EmissionPoint /\ pc' # pc => job_result' = "CancelledError")]_vars

\* C3 happens: messages were delivered to a connected client, then the job
\* was cancelled and the next emission raised instead of delivering
C3_Witness ==
    /\ cancelled
    /\ job_result = "CancelledError"
    /\ events # <<>>
    /\ \A n \in 1..Len(events) : events[n].delivered
    /\ events[Len(events)].kind = "success"

\* the job stands at a cancellation check of evaluate_and_improve_report or
\* of improve_report
ImproveCheckPoint == pc \in {"eval_begin", "eval_after", "imp_begin", "imp_success", "eai_final"}

\* C4: a positive cancellation check before evaluation, between evaluation
\* and improvement, at the start of an improvement attempt, at the
\* improvement-success emission or after improvement ends the job with
\* CancelledError: the improver's except clause does not catch it, no further
\* attempt is started, no model is called and no report is returned.
C4_ImproveCancelPropagates ==
    [][(ImproveCheckPoint /\ cancelled /\ pc' # pc) =>
          /\ pc' = "done"
          /\ job_result' = "CancelledError"
          /\ eai_result' # "returned"
          /\ (driver = "main" => eai_result' = "CancelledError")
          /\ final_report' = <<>>
          /\ attempt' = attempt
          /\ calls' = calls]_vars

\* C4 happens: cancelled at the improvement-success emission of the second
\* improvement attempt
C4_Witness ==
    /\ pc = "done"
    /\ eai_result = "CancelledError"
    /\ stage = ImproveStage
    /\ attempt = 2
    /\ Len(content) > 0
    /\ count_words(content) = word_limit

\* C5: one run of the retry harness makes at most 3 model invocations, in
\* attempts numbered 1..3, and stops at the first attempt that passes
\* validation: no attempt whose response passed validation is handled as a
\* failure, and the stage's write goes on only with validated content.
C5_StopsAtFirstValid ==
    /\ (stage <= NumStages => calls <= max_retries /\ attempt <= max_retries)
    /\ (pc \in {"a_begin", "a_chat", "a_after_chat", "a_output", "h_except", "h_sleep"}
          => attempt \in 1..max_retries /\ calls <= attempt)
    /\ (pc \in {"h_except", "h_sleep"} => content = <<>>)
    /\ (pc = "w_after_harness" => Len(content) >= 5)

\* the harness of the running stage has failed its last attempt and raised
\* to the role's write()
Exhausted ==
    /\ pc = "w_except"
    /\ events # <<>>
    /\ events[Len(events)].kind = "error"

\* C6: when the last attempt of a role fails for a reason other than
\* cancellation, write() catches the error and returns the role's fixed
\* sentence (placeholder, or default conclusion for stage 1), and
\* generate_single_report goes on to the next stage or to the assembly; a
\* report that is returned has a text for every stage.
C6_ExhaustionFallsBack ==
    /\ [][/\ ((pc = "h_except" /\ attempt = max_retries /\ ~cancelled /\ pc' # pc)
                => (pc' = "w_except" /\ gsr_result' = "none"))
           /\ ((pc = "w_except" /\ pc' # pc)
                => (/\ section' = [section EXCEPT ![stage] = Fallback(stage)]
                    /\ pc' = AfterStagePc(stage)
                    /\ gsr_result' = "none"))]_vars
    /\ [](gsr_result = "returned" => \A s \in 1..NumStages : section[s] # <<>>)

\* C6 happens: the policy role was exhausted, the later stages ran and a
\* report was returned
C6_Witness ==
    /\ gsr_result = "returned"
    /\ report # <<>>
    /\ section[2] = PolicyPlaceholder
    /\ section[3] # MarketPlaceholder

\* C7 as stated: an exhausted stage has slept 2, 4 and 8 seconds
C7_Stated == Exhausted => backoff = <<2, 4, 8>>

\* C7: the harness sleeps 2^attempt seconds after a failed attempt only
\* when another attempt follows: an exhausted stage has slept 2 and 4
\* seconds, in that order, and nothing after its third attempt.
C7_Backoff ==
    /\ (Exhausted => attempt = max_retries /\ backoff = <<2, 4>>)
    /\ (stage <= NumStages =>
          /\ Len(backoff) <= max_retries - 1
          /\ \A n \in 1..Len(backoff) : backoff[n] = 2 ^ n)

\* C7 happens: a stage whose three attempts failed stands in write()'s
\* except clause
C7_Witness == Exhausted /\ stage = 2 /\ calls = max_retries /\ Len(backoff) = 2

\* the job is in the harness of a stage or in the except clause of its write()
InHarness ==
    pc \in {"a_begin", "a_chat", "a_after_chat", "a_output", "h_except", "h_sleep", "w_except"}

\* C8 as stated: after a rendering failure no further attempt is made
C8_Stated == (InHarness /\ ~template_ok) => attempt <= 1

\* C8: a template that lacks a parameter makes agent.chat answer with a
\* failed response, which the harness retries like any failure: the model is
\* never invoked, all 3 attempts are made with sleeps of 2 and 4 seconds,
\* and only then does the stage end in the role's fallback.
C8_RenderingFailureRetried ==
    (InHarness /\ ~template_ok) =>
        /\ calls = 0
        /\ content = <<>>
        /\ (pc = "w_except" => attempt = max_retries /\ backoff = <<2, 4>>)

\* C8 happens: the third attempt of a stage whose template does not render
\* has failed without a model invocation
C8_Witness ==
    /\ ~template_ok
    /\ pc = "w_except"
    /\ attempt = max_retries
    /\ calls = 0
    /\ faults = max_retries

\* C9: an exception other than cancellation raised by the controller's own
\* steps of stages 1-6 (get_agent_factory, create_role_agent) leaves
\* generate_single_report: the job ends with it, no text is substituted for
\* the stage, no report is returned and no later stage runs.
C9_ControllerErrorPropagates ==
    [][(pc = "stage_begin" /\ ~cancelled /\ pc' # pc /\ pc' # "w_start") =>
          /\ pc' = "done"
          /\ gsr_result' = "Exception"
          /\ job_result' = "Exception"
          /\ section' = section
          /\ report' = <<>>
          /\ stage' = stage]_vars

\* C9 happens: the agent of stage 4 could not be created after three stages
\* had written their sections
C9_Witness ==
    /\ pc = "done"
    /\ gsr_result = "Exception"
    /\ stage = 4
    /\ section[3] # <<>>
    /\ section[4] = <<>>
    /\ report = <<>>

\* the job is inside the write() of the stage
InWrite == InHarness \/ pc \in {"w_start", "h_enter", "w_after_harness"}

\* C10: the conclusion role gets no preceding text, policy gets the empty
\* text, and each later section role gets exactly what the write() of the
\* stage before it returned, placeholder or not; every section role works
\* with the conclusion stage 1 returned; a stage's text is written once,
\* by that stage.
C10_ContextChain ==
    /\ [](InWrite =>
            /\ stage \in 1..NumStages
            /\ context = (IF stage <= 2 THEN <<>> ELSE section[stage - 1])
            /\ conclusion = (IF stage = 1 THEN <<>> ELSE section[1])
            /\ (stage > 1 => section[stage - 1] # <<>>)
            /\ section[stage] = <<>>)
    /\ [][\A s \in 1..NumStages :
            section'[s] # section[s] => (s = stage /\ section[s] = <<>>)]_vars

\* C10 happens: the case role runs with the market role's placeholder as
\* its preceding text and with a conclusion the model wrote
C10_Witness ==
    /\ pc = "a_chat"
    /\ stage = 4
    /\ context = MarketPlaceholder
    /\ conclusion # default_conclusion
    /\ conclusion = section[1]

\* every step before the one the job is in has returned: the stages before
\* it have their texts, evaluation starts from a returned report and
\* improvement from a returned evaluation
PriorReturned ==
    /\ \A s \in 1..NumStages : s < stage => section[s] # <<>>
    /\ (stage >= EvalStage => gsr_result = "returned" /\ report # <<>>)
    /\ (stage = ImproveStage => evaluation_result # <<>>)

\* no step after the one the job is in has produced anything
LaterUntouched ==
    /\ \A s \in 1..NumStages : s > stage => section[s] = <<>>
    /\ (stage <= NumStages => report = <<>>)
    /\ (stage <= EvalStage => improved_report = <<>> /\ best_result = <<>>)
    /\ (stage < EvalStage => evaluation_result = <<>>)

\* C11: the steps of a job run one after the other in the order conclusion,
\* policy, market, case, technical, societal, assembly, evaluation,
\* improvement: the job moves from a step to the next one only, a model
\* invocation or an event belongs to the step the job is in and happens
\* only when every earlier step has returned, and a step of the job makes
\* at most one model invocation, at one of its three call sites.
C11_Sequential ==
    /\ [](PriorReturned /\ LaterUntouched)
    /\ [][/\ stage' \in {stage, stage + 1}
           /\ calls' \in {calls, calls + 1, 0}
           /\ (calls' = calls + 1 =>
                 /\ pc \in {"a_chat", "eval_chat", "imp_chat"}
                 /\ call_stage' = stage
                 /\ stage' = stage)
           /\ (calls' = calls => call_stage' = call_stage)
           /\ (event_stage' # event_stage => event_stage' = stage)
           /\ ((events' # events /\ events' # <<>>) => event_stage' = stage)]_vars

\* C11 happens: the job went through all nine steps, the last model
\* invocation and the last event being those of the improvement
C11_Witness ==
    /\ pc = "done"
    /\ job_result = "returned"
    /\ stage = ImproveStage
    /\ call_stage = ImproveStage
    /\ event_stage = ImproveStage
    /\ \A s \in 1..NumStages : section[s] # <<>>

\* the texts improve_report chooses from: the original answer and the
\* improved_answer of every attempt whose response reported success
Candidates == {report[1].answer} \cup {candidates[n] : n \in 1..Len(candidates)}

\* r is one of the two reports improve_report may return
ImproverOutcome(r) ==
    \/ /\ r.improved
       /\ count_words(r.answer) = word_limit
    \/ /\ ~r.improved
       /\ r.answer \in Candidates
       /\ \A c \in Candidates : word_diff(r.answer) <= word_diff(c)

\* C12: whatever the model answers, improve_report makes at most 3 model
\* invocations, in attempts 1..3, and what it returns is either a report
\* marked improved whose word count equals the word limit, or a report
\* marked not improved whose text is, among the original and the texts of
\* the attempts, one with the least distance from the word limit.
C12_ImproverBounded ==
    /\ (stage = ImproveStage =>
          /\ attempt \in 1..max_attempts
          /\ Len(candidates) <= attempt
          /\ calls <= attempt + 1)
    /\ (stage < ImproveStage => candidates = <<>>)
    /\ (improved_report # <<>> => ImproverOutcome(improved_report[1]))

\* C12 happens: three attempts that all succeeded without matching, the
\* second the closest: it is what the improver returned
C12_Witness ==
    /\ improved_report # <<>>
    /\ ~improved_report[1].improved
    /\ Len(candidates) = max_attempts
    /\ improved_report[1].answer = candidates[2]
    /\ candidates[1] # candidates[2]
    /\ candidates[3] # candidates[2]

\* the events of the given kind among those of the current step
EventsOfKind(kind) == {n \in 1..Len(events) : events[n].kind = kind}

\* the attempts of improve_report whose recomputed word count equals the limit
ExactAttempts == {n \in 1..Len(candidates) : count_words(candidates[n]) = word_limit}

\* C13: an exact match is the only early exit of improve_report: when it
\* returns, it has made fewer than 3 attempts only if the last attempt
\* matched the word limit exactly; the returned report is marked improved
\* exactly when an attempt matched, which is then the last one and the
\* returned text; improvement-success is emitted once in that case and
\* never otherwise.
C13_ExactMatchOnlyEarlyExit ==
    /\ Cardinality(EventsOfKind("improvement_success")) <= 1
    /\ (improved_report # <<>> =>
          /\ improved_report[1].improved = (ExactAttempts # {})
          /\ (attempt < max_attempts => improved_report[1].improved)
          /\ (improved_report[1].improved =>
                /\ ExactAttempts = {Len(candidates)}
                /\ improved_report[1].answer = candidates[Len(candidates)]
                /\ Cardinality(EventsOfKind("improvement_success")) = 1)
          /\ (~improved_report[1].improved =>
                /\ attempt = max_attempts
                /\ EventsOfKind("improvement_success") = {}))
    /\ (EventsOfKind("improvement_success") # {} =>
          /\ stage = ImproveStage
          /\ ExactAttempts = {Len(candidates)})

\* C13 happens: the second attempt matched exactly after a first that did
\* not, and improve_report returned at once
C13_Witness ==
    /\ improved_report # <<>>
    /\ improved_report[1].improved
    /\ attempt = 2
    /\ Len(candidates) = 2
    /\ Cardinality(EventsOfKind("improvement_success")) = 1
    /\ Cardinality(EventsOfKind("improvement_start")) = 2

\* C14: evaluate_report invokes the model once and does not retry; when the
\* invocation fails it returns None, and evaluate_and_improve_report then
\* returns the report it was given, unchanged, without raising: the
\* improver's model is never invoked and no improvement-start is emitted.
C14_EvaluationFailureSkips ==
    /\ [](stage = EvalStage => calls <= 1)
    /\ [](pc = "eval_after" =>
            /\ calls = 1
            /\ call_stage = EvalStage
            /\ response.success = (evaluation_result # <<>>))
    /\ [][(pc = "eval_after" /\ evaluation_result = <<>> /\ ~cancelled /\ pc' # pc) =>
            /\ pc' = "done"
            /\ final_report' = report
            /\ eai_result' = "returned"
            /\ job_result' = "returned"
            /\ calls' = calls
            /\ events' = events]_vars
    /\ []((gsr_result = "returned" /\ evaluation_result = <<>>) =>
            /\ stage = EvalStage
            /\ call_stage <= EvalStage
            /\ candidates = <<>>
            /\ improved_report = <<>>
            /\ EventsOfKind("improvement_start") = {}
            /\ (calls = 1 => eai_result # "Exception"))

\* C14 happens: the evaluator's invocation failed and the job returned the
\* generated report after that one invocation
C14_Witness ==
    /\ pc = "done"
    /\ job_result = "returned"
    /\ stage = EvalStage
    /\ evaluation_result = <<>>
    /\ calls = 1
    /\ final_report = report
    /\ report # <<>>

\* the word_count of the report r is the canonical count of its text
Recounted(r) == r.word_count = count_words(r.answer)

C16_DeliveryFailureNotFatal ==
    [][(pc = "a_output" /\ ~cancelled /\ pc' # pc) =>
          /\ pc' = "w_after_harness"
          /\ content' = content
          /\ attempt' = attempt
          /\ gsr_result' = "none"]_vars

\* the attempt events of the current stage that announce attempt a
AttemptEvents(a) == {n \in EventsOfKind("attempt") : events[n].n = a}

\* C17: progress events are at-most-once: among the events of one stage
\* invocation there is at most one stage-start, at most one attempt event
\* for each attempt number, and at most one stage-success.
C17_EventsAtMostOnce ==
    stage <= NumStages =>
        /\ Cardinality(EventsOfKind("start")) <= 1
        /\ \A a \in 1..max_retries : Cardinality(AttemptEvents(a)) <= 1
        /\ Cardinality(EventsOfKind("success")) <= 1

\* C18: while a job is in its backoff delay or has a model invocation in
\* flight, the other job, when it is ready to run, can take its next step,
\* and the handler that sets a cancel flag can run.
C18_NoGlobalPause ==
    \A a \in TaskIds :
        tasks[a].pc \in {"calling", "sleeping"} =>
            \A b \in TaskIds \ {a} :
                /\ (tasks[b].pc \in Suspended => ENABLED ResumeTask(b))
                /\ (~cancel_tokens[b] => ENABLED cancel_task(b))

\* C19: the cancellation lookup is keyed by job id.  A job whose own flag is
\* not set gets false from every cancellation check and is never ended as
\* cancelled, whatever the flag of the other job is; a step that sets one
\* job's flag leaves the other job's flag and the other job's task alone.
C19_CancelKeyedByJob ==
    /\ [](\A b \in TaskIds :
             ~cancel_tokens[b] => ~cancel_checker(b) /\ tasks[b].pc # "cancelled")
    /\ [][\A a \in TaskIds :
             (cancel_tokens'[a] /\ ~cancel_tokens[a]) =>
                 \A b \in TaskIds \ {a} :
                     /\ cancel_tokens'[b] = cancel_tokens[b]
                     /\ tasks'[b] = tasks[b]]_vars

\* job t1 was cancelled and ended as cancelled while job t2, whose flag was
\* never set, ran to its success
C19_Witness ==
    /\ cancel_tokens["t1"]
    /\ tasks["t1"].pc = "cancelled"
    /\ ~cancel_tokens["t2"]
    /\ tasks["t2"].pc = "done"

\* the messages handed to the connection manager for one client id
DeliveredTo(c) == {m \in outbox : m.to = c}

Returned ==
    UNION {{factory_calls[j][k] : k \in 1..Len(factory_calls[j])} : j \in Jobs} \ {0}

\* C21: the shared factory is constructed lazily and at most once.  In every
\* interleaving of the jobs' calls the constructor completes at most once,
\* nothing is constructed before the first call, every call that returns
\* returns the one instance held by the global, and the global, once set,
\* keeps its instance.
C21_FactoryOnce ==
    /\ [](/\ constructions <= 1
          /\ global_agent_factory = constructions
          /\ Returned \subseteq {global_agent_factory} \ {0}
          /\ ((\A j \in Jobs : factory_calls[j] = <<>>) => constructions = 0))
    /\ [][global_agent_factory # 0 => global_agent_factory' = global_agent_factory]_vars

\* the constructor raised in one job's call, then completed in another's;
\* two more jobs got the instance, one of them in both of its calls
C21_Witness ==
    /\ \E j \in Jobs : factory_calls[j] = <<0>>
    /\ constructions = 1
    /\ Cardinality({j \in Jobs : factory_calls[j] = <<1, 1>>}) >= 2
    /\ \E j \in Jobs : factory_calls[j] = <<1>>

\* C22: for word_limit > 0 the evaluator's word-match rate is
\* max(0, 100 - |actual - word_limit| / word_limit * 100): it lies in
\* [0, 100], is 100 exactly when the answer has word_limit words, and is 0
\* whenever the answer is off by word_limit words or more.
C22_WordMatchRate ==
    (callee = "evaluate_report" /\ returned) =>
        /\ target > 0
        /\ output.den = target
        /\ output.num >= 0
        /\ output.num <= 100 * output.den
        /\ (output.num = 100 * output.den <=> count_words(text) = target)
        /\ (Abs(count_words(text) - target) >= target => output.num = 0)
        /\ (Abs(count_words(text) - target) < target =>
               output.num = 100 * (target - Abs(count_words(text) - target)))

\* the rate of an answer more than twice as long as asked: floored at 0
C22_Witness ==
    /\ callee = "evaluate_report"
    /\ returned
    /\ count_words(text) > 2 * target
    /\ output.num = 0

\* every writing stage got the answer of word_limit words, the evaluator
\* answered, and so did the improver in its first attempt
StubRun ==
    /\ \A k \in 1..NumStages : section[k] = Hans(word_limit)
    /\ evaluation_result # <<>>
    /\ candidates # <<>>
    /\ candidates[1] = Hans(word_limit)

\* C23: end to end, when the model answers every role (the six writers, the
\* evaluator, the improver) with plain content of exactly word_limit words,
\* the report the workflow returns has word_count = word_limit (and its
\* answer counts word_limit words).
C23_EndToEnd ==
    (StubRun /\ job_result = "returned") =>
        /\ final_report # <<>>
        /\ final_report[1].word_count = word_limit
        /\ count_words(final_report[1].answer) = word_limit

\* a job without a single failed attempt in which every role got the answer
\* of word_limit words, and the report it returned
C23_Witness ==
    /\ StubRun
    /\ faults = 0
    /\ Len(candidates) = 1
    /\ job_result = "returned"
    /\ final_report[1].word_count = word_limit
    /\ report[1].word_count > word_limit

\* the maximal runs of Latin letters of t
LatinRuns(t) ==
    Cardinality({i \in 1..Len(t) : t[i] \in Latin /\ (i = 1 \/ t[i - 1] \notin Latin)})

\* the end of the numeric token whose first run of digits ends before index
\* e: one '.' and a second run of digits belong to it
TokenEnd(t, e) ==
    IF e + 1 <= Len(t) /\ t[e] = "." /\ t[e + 1] \in Digit
    THEN SkipWhile(t, e + 1, Digit)
    ELSE e

\* the numeric tokens of t from index i on, read from left to right
RECURSIVE NumericTokens(_, _)
NumericTokens(t, i) ==
    IF FindFirst(t, i, Digit) > Len(t) THEN 0
    ELSE 1 + NumericTokens(t, TokenEnd(t, SkipWhile(t, FindFirst(t, i, Digit), Digit)))

\* C24: for a text of Han characters, Latin letters, digits, '.', whitespace
\* and other characters, count_words returns the number of Han characters
\* plus the number of maximal runs of Latin letters plus the number of
\* numeric tokens, also where a run or a token stands next to a Han
\* character, a digit or a letter with no whitespace between them.
C24_CountWordsIsSum ==
    (callee = "count_words" /\ returned /\ argument = text
        /\ \A i \in 1..Len(text) : text[i] # "<") =>
        output = CountHan(text) + LatinRuns(text) + NumericTokens(text, 1)

\* t holds no tag: no part of it matches <[^>]+>
TagFree(t) == \A j \in 1..Len(t) : TagEnd(t, j) = 0

\* C25: count_words does not change when whitespace is added before and
\* after the text and the text is put between a pair of tags: for every
\* tag-free text t, count_words(ws + '<b>' + t + '</b>' + ws) equals
\* count_words(t).
C25_WrappingInvariant ==
    (callee = "count_words" /\ returned /\ argument # text /\ TagFree(text)) =>
        output = count_words(text)

\* C26: the safety valve of clean_response.  For every input t the output
\* has at least a quarter of the length of t, or it is t.strip(): a
\* reduction to less than a quarter of the input is never returned.
C26_SafetyValve ==
    (callee = "clean_response" /\ returned) =>
        \/ 4 * Len(output) >= Len(text)
        \/ output = Strip(text)

\* the cleaning left less than a quarter of an answer with a sentence in
\* it, and the trimmed answer was returned
C26_Witness ==
    /\ callee = "clean_response"
    /\ returned
    /\ 4 * Len(CleanedResult(text)) < Len(text)
    /\ CleanedResult(text) # <<>>
    /\ output = Strip(text)
    /\ output # CleanedResult(text)

\* C27: remove_markdown is idempotent.  Called with what an earlier call of
\* it returned, it returns its argument unchanged, also for texts with
\* repeated or nested markers.
C27_Idempotent ==
    (callee = "remove_markdown" /\ returned /\ argument = remove_markdown(text)
        /\ argument # text) =>
        output = argument

\* the state of a stage's event order after an event of kind k with number
\* n, from state q with a attempts begun; "bad" when the order is broken
OrderStep(q, a, k, n) ==
    IF q = "init" /\ k = "start" THEN "started"
    ELSE IF q \in {"started", "failed"} /\ k = "attempt" /\ n = a + 1 /\ n <= max_retries
    THEN "attempting"
    ELSE IF q = "attempting" /\ k = "success" THEN "succeeded"
    ELSE IF q = "attempting" /\ k = "error" THEN "failed"
    ELSE IF q = "succeeded" /\ k = "agent_output" THEN "succeeded"
    ELSE IF q = "succeeded" /\ k = "section" THEN "complete"
    ELSE "bad"

\* the events es, read from state q with a attempts begun, are in order
RECURSIVE InOrder(_, _, _)
InOrder(es, q, a) ==
    IF es = <<>> THEN q # "bad"
    ELSE q # "bad" /\ InOrder(Tail(es), OrderStep(q, a, Head(es).kind, Head(es).n),
                              IF Head(es).kind = "attempt" THEN a + 1 ELSE a)

\* C28: the events of one stage invocation come in this order: the stage
\* start first; then, for the attempts 1, 2, 3 in increasing order, the
\* attempt event followed by the stage success, which ends the stage, or by
\* the stage error; the section-complete event comes only from a role that
\* writes a section, only after the success of its stage, and never in a
\* stage that ends with the placeholder.
C28_EventOrder ==
    /\ (stage <= NumStages => InOrder(events, "init", 0))
    /\ (EventsOfKind("section") # {} /\ pc \in {"stage_begin", "w_start", "assemble"} =>
           event_stage > 1)
    /\ (pc = "w_except" => EventsOfKind("section") = {})

\* C29: the text a rendered prompt shows for {question} is the question of
\* the task, in every stage
C29_QuestionRendered == prompt_question \in {"none", question}

\* C30: the count a stage's success event carries is count_words of the
\* cleaned content on_agent_success sends with it
C30_SuccessWordCount ==
    pc = "a_output" =>
        /\ events[Len(events)].kind = "success"
        /\ events[Len(events)].n = count_words(clean_response(content))

\* C31: the improver sleeps 2 seconds after each attempt that is neither
\* the last nor an exact match, and at no other point: while attempt n
\* runs, and after improve_report has ended in attempt n, its delays are
\* n - 1 times 2 seconds, at most 4 seconds in all
C31_FixedDelay ==
    stage = ImproveStage =>
        /\ attempt \in 1..max_attempts
        /\ backoff = [k \in 1..(attempt - 1) |-> 2]

C31_Witness ==
    /\ stage = ImproveStage
    /\ pc = "done"
    /\ job_result = "returned"
    /\ backoff = <<2, 2>>
    /\ Len(candidates) = 2

\* C32: in improve_report the best text changes only in a successful
\* attempt, to that attempt's text, whose distance from the word limit is
\* strictly smaller than the best so far (on a tie the earlier text stays);
\* the best distance is the distance of the best text, which starts as the
\* original answer; and the returned text is never farther from the word
\* limit than the original answer
C32_BestOnlyStrictlyCloser ==
    /\ [](stage = ImproveStage =>
            /\ best_result \in Candidates
            /\ best_word_diff = word_diff(best_result)
            /\ best_word_diff <= word_diff(report[1].answer))
    /\ [](improved_report # <<>> =>
            word_diff(improved_report[1].answer) <= word_diff(report[1].answer))
    /\ [][(stage = ImproveStage /\ best_result' # best_result) =>
            /\ pc = "imp_chat"
            /\ candidates' = Append(candidates, best_result')
            /\ word_diff(best_result') < word_diff(best_result)]_vars

\* C32 happens: the second attempt's text differs from the first's and is
\* as far from the word limit, a third attempt failed, and the improver
\* returned the first's text
C32_Witness ==
    /\ improved_report # <<>>
    /\ Len(candidates) = 2
    /\ candidates[1] # candidates[2]
    /\ word_diff(candidates[1]) = word_diff(candidates[2])
    /\ word_diff(candidates[1]) < word_diff(report[1].answer)
    /\ improved_report[1].answer = candidates[1]

\* C33: every attempt of improve_report is rendered from the original
\* report's text, the evaluator's feedback and the metrics the evaluator
\* returned for the original report: no attempt sees the text of an
\* earlier attempt or the best text so far
C33_AttemptsDoNotChain ==
    \A n \in 1..Len(improve_prompts) :
        /\ improve_prompts[n].original_report = report[1].answer
        /\ improve_prompts[n].evaluation_feedback = evaluation_result[1].evaluation
        /\ improve_prompts[n].current_actual_word_count =
              evaluation_result[1].actual_word_count
        /\ improve_prompts[n].current_word_difference =
              evaluation_result[1].word_difference

\* C33 happens: a third attempt was rendered after an earlier attempt had
\* become the best text
C33_Witness ==
    /\ Len(improve_prompts) = max_attempts
    /\ Len(candidates) = max_attempts
    /\ best_result = candidates[1]
    /\ candidates[1] # report[1].answer

\* C34: evaluate_and_improve_report runs the improver exactly when the
\* evaluator returned a result, whatever the metrics say: past the check
\* after a successful evaluation the job enters improve_report (or raises
\* because the improver's agent could not be created), also for a report
\* whose word count equals the word limit; the improver never runs without
\* an evaluation, and a job that returned ran it iff there was one
C34_ImproverIffEvaluated ==
    /\ [](stage = ImproveStage => evaluation_result # <<>>)
    /\ []((pc = "done" /\ job_result = "returned" /\ stage >= EvalStage) =>
            ((evaluation_result # <<>>) <=> (improved_report # <<>>)))
    /\ [][(pc = "eval_after" /\ evaluation_result # <<>> /\ ~cancelled /\ pc' # pc) =>
            \/ pc' = "imp_begin" /\ stage' = ImproveStage
            \/ pc' = "done" /\ eai_result' = "Exception"]_vars

\* C34 happens: a report of exactly word_limit words was evaluated, went
\* through an improvement attempt and came back marked improved with
\* another text
C34_Witness ==
    /\ pc = "done"
    /\ job_result = "returned"
    /\ report # <<>>
    /\ report[1].word_count = word_limit
    /\ evaluation_result # <<>>
    /\ evaluation_result[1].word_difference = 0
    /\ improved_report # <<>>
    /\ final_report = improved_report
    /\ improved_report[1].improved
    /\ improved_report[1].answer # report[1].answer

\* C35 as stated: the conclusion role returns the default conclusion
\* exactly when no attempt of its harness was accepted
C35_Stated ==
    [][(stage = 1 /\ stage' = 2) =>
          ((section'[1] = default_conclusion) <=> (EventsOfKind("success") = {}))]_vars

\* C35: the conclusion role returns the default conclusion when its harness
\* raised after three failed attempts and also when the content the harness
\* returned, cleaned and stripped, has fewer than 10 characters; otherwise
\* it returns that content without its markdown
C35_DefaultConclusion ==
    /\ []((pc = "w_except" /\ stage = 1) =>
            \/ Exhausted
            \/ /\ events # <<>>
               /\ events[Len(events)].kind \in {"success", "agent_output"}
               /\ Len(Strip(clean_response(content))) < 10)
    /\ [][(stage = 1 /\ stage' = 2) =>
            IF pc = "w_after_harness"
            THEN /\ Len(Strip(clean_response(content))) >= 10
                 /\ section'[1] = remove_markdown(Strip(clean_response(content)))
            ELSE /\ pc = "w_except"
                 /\ section'[1] = default_conclusion]_vars
    /\ [][(stage = 1 /\ pc = "w_after_harness" /\ pc' # pc
             /\ Len(Strip(clean_response(content))) < 10) =>
            pc' = "w_except"]_vars

\* C35 happens: the only attempt of the conclusion role was accepted, and
\* the role returned the default conclusion because the content was short
C35_Witness ==
    /\ stage = 2
    /\ pc = "stage_begin"
    /\ section[1] = default_conclusion
    /\ calls = 1
    /\ EventsOfKind("success") # {}
    /\ EventsOfKind("error") = {}
    /\ Len(content) \in 5..9

\* where the job stands between a passed check and the model invocation
\* that follows it
InvokePoint == pc \in {"a_chat", "eval_chat", "imp_chat"}

\* C36: a model invocation begins only from the point behind a passed
\* check, and once the cancel flag is set the job never gets to such a
\* point again: after the flag is set at most one further invocation
\* begins (the one whose check had already passed); every step from a
\* check then ends the job with CancelledError, and the job ends in no
\* other way
C36_BoundedCancellation ==
    /\ [][calls' > calls => (InvokePoint /\ ~InvokePoint')]_vars
    /\ [][(cancelled /\ ~InvokePoint) => (~InvokePoint' /\ calls' <= calls)]_vars
    /\ [][(cancelled /\ pc' # pc /\ (WriteCheckPoint \/ ImproveCheckPoint)) =>
            (pc' = "done" /\ job_result' = "CancelledError")]_vars
    /\ [][(cancelled /\ pc' = "done" /\ pc # "done") =>
            job_result' = "CancelledError"]_vars

\* C36 happens: the flag was set after the check of an improver's attempt
\* had passed, so that the invocation of the attempt is still to begin
C36_Witness ==
    /\ pc = "imp_chat"
    /\ cancelled
    /\ cancel_stage = ImproveStage
    /\ attempt = 2

\* C37: every create_role_agent returns an agent no job has got before, so
\* in every interleaving of the jobs each prompt of a job is rendered from
\* that job's own template data
C37_NoSharedPromptState ==
    /\ \A j \in Jobs : \A n \in 1..Len(job_prompts[j]) : job_prompts[j][n] = j
    /\ \A j, k \in Jobs : \A n \in 1..Len(job_agents[j]) : \A m \in 1..Len(job_agents[k]) :
          (job_agents[j][n] = job_agents[k][m]) => (j = k /\ n = m)
    /\ \A a \in 1..Len(agent_data) :
          agent_data[a] # 0 => \E n \in 1..Len(job_agents[agent_data[a]]) :
                                  job_agents[agent_data[a]][n] = a

\* C37 happens: two jobs held an agent each, and each rendered a prompt
\* from the template data it had put into its agent
C37_Witness ==
    \E j, k \in Jobs :
        /\ j # k
        /\ job_prompts[j] = <<j>>
        /\ job_prompts[k] = <<k>>
        /\ job_agents[j] = <<2>>
        /\ job_agents[k] = <<1>>

\* the place of each point of the job's code within its stage
PcRank ==
    [job_start |-> 0, stage_begin |-> 1, w_start |-> 2, h_enter |-> 3,
     a_begin |-> 4, a_chat |-> 5, a_after_chat |-> 6, a_output |-> 7,
     h_except |-> 8, h_sleep |-> 9, w_after_harness |-> 10, w_except |-> 11,
     assemble |-> 12, eval_begin |-> 1, eval_chat |-> 2, eval_after |-> 3,
     imp_begin |-> 4, imp_chat |-> 5, imp_success |-> 6, imp_next |-> 7,
     eai_final |-> 8, done |-> 0]

\* how far the job has come: the stage, then the attempt (none before the
\* loop, all behind it after the loop), then the point within the attempt
Progress ==
    IF pc = "done" THEN 9000
    ELSE stage * 1000
         + (IF pc \in {"job_start", "stage_begin"} THEN 0
            ELSE IF pc \in {"w_after_harness", "w_except", "assemble", "eai_final"}
            THEN 80
            ELSE attempt * 20)
         + PcRank[pc]

\* C38: the workflow terminates after at most 22 model invocations: every
\* step of the job takes it strictly further, it can never go further than
\* the end, and it ends by returning or raising; a writing stage makes at most 3 invocations, the
\* evaluation and the improvement together at most 4, the count starts
\* again only where a stage or the evaluation begins, and the stages are
\* passed in order, each at most once (6 * 3 + 1 + 3 = 22)
C38_Terminates ==
    /\ [](Progress \in 1000..9000)
    /\ [][pc' # pc => Progress' > Progress]_vars
    /\ [][pc' = pc => (stage' = stage /\ attempt' = attempt /\ calls' = calls)]_vars
    /\ [](pc = "done" => job_result \in {"returned", "Exception", "CancelledError"})
    /\ [](stage \in 1..NumStages => calls <= 3)
    /\ [](stage \in {EvalStage, ImproveStage} => calls <= 1 + 3)
    /\ [][/\ stage' >= stage
           /\ calls' < calls => (calls' = 0 /\ pc \in {"stage_begin", "assemble"})]_vars

\* C38 happens: a job whose policy stage used up its three invocations
\* went on through the evaluation and three improvement attempts and
\* returned
C38_Witness ==
    /\ pc = "done"
    /\ job_result = "returned"
    /\ section[2] = PolicyPlaceholder
    /\ faults = MaxFaults
    /\ calls = 4
    /\ Len(candidates) = 3

\* C39: a task of generate_report_background whose cancel flag is set
\* before its final check never stores the status completed and never
\* sends the completion message; once it has ended, its status is
\* cancelled when the workflow was left by CancelledError, and also when
\* the workflow returned a report under a set flag
C39_CancelledNeverCompleted ==
    /\ [](cancelled => (task_status # "completed" /\ "completion" \notin bg_sent))
    /\ []((bg_pc = "bg_end" /\ job_result = "CancelledError") =>
            task_status = "cancelled")
    /\ []((bg_pc = "bg_end" /\ cancelled /\ job_result # "Exception") =>
            task_status \in {"cancelled", "error"})
    /\ [][task_status = "cancelled" => task_status' = "cancelled"]_vars

\* C39 happens: the workflow returned its report, the flag was set before
\* the final check, and the task ended with the status cancelled
C39_Witness ==
    /\ bg_pc = "bg_end"
    /\ cancelled
    /\ job_result = "returned"
    /\ final_report # <<>>
    /\ task_status = "cancelled"
    /\ "cancelled" \in bg_sent

====
